---- MODULE Spec2Model ----
(***************************************************************************)
(* Model of the RAG news chatbot backend: the chat query pipeline          *)
(* (HTTP POST /api/chat/message, socket 'message'), RAGService and the     *)
(* Redis-backed query cache and chat history.                              *)
(*                                                                         *)
(* Each handler is an async function; one action of the model is the code  *)
(* that runs between two awaits, so handlers of different requests         *)
(* interleave at exactly the points where the event loop can switch.       *)
(***************************************************************************)
EXTENDS Integers, Sequences, FiniteSets, TLC

(* ---------------------------------------------------------------------- *)
(* Bounds of the model                                                    *)
(* ---------------------------------------------------------------------- *)
\* environment events of one run: faults of a provider or of Redis,
\* server restarts, clock ticks
MaxEnvEvents == 1
TickStep == 1800
MaxTime == 2000

(* ---------------------------------------------------------------------- *)
(* Program constants                                                      *)
(* ---------------------------------------------------------------------- *)
\* 30 * 60 seconds, the ttl both handlers pass to cacheQueryResult
CacheTTL == 30 * 60
\* score_threshold 0.7 of the Qdrant search, in tenths
ScoreThreshold == 7
\* limit passed by processQuery to searchSimilarDocuments
SearchLimit == 5
\* getChatHistory(sessionId, 10) in both handlers
HistoryLimit == 10
\* chatHistory.slice(-3) in the query hash
HashTurns == 3
\* lTrim(key, 0, 99) keeps the 100 newest messages
HistoryTrimStop == 99

\* the requests of a run, in the order they arrive
Reqs == {1, 2}
\* session ids, in the order a run first uses them (they are interchangeable)
SessionOrder == <<"s1", "s2">>
Sessions == {SessionOrder[i] : i \in 1..Len(SessionOrder)}
Transports == {"http", "socket"}
\* message texts a client can send; "" is the missing message
Messages == {"", "q1", "q2"}
\* texts the generation provider can return; "" is an empty completion
GenTexts == {"", "g1"}

AdvisoryText == "I'm currently unable to access the news database."
NoDataText == "I don't have any news articles in my database yet."
ApologyText == "I'm sorry, I'm having trouble processing your request right now."

(* ---------------------------------------------------------------------- *)
(* The vector store as seen by a query                                    *)
(* ---------------------------------------------------------------------- *)
Docs == 1..7

\* cosine similarity (in tenths) of the embedding of a query text with
\* the stored vector of a document
Score(q, d) ==
  IF q = "q1" THEN <<9, 9, 8, 8, 7, 7, 6>>[d]
  ELSE <<3, 5, 2, 6, 1, 4, 6>>[d]

Min(a, b) == IF a < b THEN a ELSE b

RECURSIVE TopK(_, _, _)
\* the k best documents of S for query q, best first
TopK(q, S, k) ==
  IF k = 0 \/ S = {} THEN <<>>
  ELSE LET best == CHOOSE d \in S :
                     \A e \in S : Score(q, d) > Score(q, e)
                                  \/ (Score(q, d) = Score(q, e) /\ d <= e)
       IN  <<[id |-> best, score |-> Score(q, best)]>> \o TopK(q, S \ {best}, k - 1)

\* qdrantClient.search(collection, {vector, limit, score_threshold})
QdrantSearch(q, pts, limit, threshold) ==
  TopK(q, {d \in pts : Score(q, d) >= threshold}, limit)

\* faulty variant of SearchCall: the score_threshold is not passed
SearchCall_NoThreshold(q, pts, limit) == QdrantSearch(q, pts, limit, 0)

\* the search call made by searchSimilarDocuments
SearchCall(q, pts, limit) == QdrantSearch(q, pts, limit, ScoreThreshold)

\* faulty variant of SourcesOf: the best candidate is left out
SourcesOf_DropFirst(context) == [i \in 1..(Len(context) - 1) |-> context[i + 1].id]

\* context.map(doc => ({title, url, source, publishedAt})) of generateResponse
SourcesOf(context) == [i \in 1..Len(context) |-> context[i].id]

(* ---------------------------------------------------------------------- *)
(* Redis lists and the chat history                                       *)
(* ---------------------------------------------------------------------- *)
LPush(list, x) == <<x>> \o list

\* the position (from 1) of the element a Redis list command means by the
\* index stop: a negative index counts from the end of the list, an index
\* past the end means the last element
LastIndex(list, stop) ==
  IF stop < 0 THEN Len(list) + stop + 1 ELSE Min(stop + 1, Len(list))

\* lTrim(key, 0, stop)
LTrim(list, stop) == SubSeq(list, 1, LastIndex(list, stop))

\* lRange(key, 0, stop)
LRange(list, stop) == SubSeq(list, 1, LastIndex(list, stop))

\* faulty variant of Reverse: the order of Redis, newest first, is kept
Reverse_Identity(s) == s

\* Array.prototype.reverse()
Reverse(s) == [i \in 1..Len(s) |-> s[Len(s) + 1 - i]]

\* faulty variant of SliceLast: the first n elements, as slice(0, n)
SliceLast_First(s, n) == SubSeq(s, 1, Min(n, Len(s)))

\* Array.prototype.slice(-n)
SliceLast(s, n) == SubSeq(s, Len(s) - Min(n, Len(s)) + 1, Len(s))

\* faulty variant of QueryHash: the whole history is hashed
QueryHash_WholeHistory(message, hist) == <<message, hist>>

\* md5(message + JSON.stringify(chatHistory.slice(-3))) of the two handlers,
\* as the pair it hashes
QueryHash(message, hist) == <<message, SliceLast(hist, HashTurns)>>

\* md5(query + JSON.stringify(chatHistory.slice(-3))) of processQuery
ProcessQueryHash(query, hist) == <<query, SliceLast(hist, HashTurns)>>

VARIABLES
  isQdrantAvailable,  \* RAGService.isQdrantAvailable, set by initialize()
  points,             \* ids of the points in the Qdrant collection
  cache,              \* Redis keys query_cache:<hash>: {[key, value, expiresAt]}
  sessions,           \* Redis keys session:<id> that exist
  chat_history,       \* Redis lists chat_history:<id>, newest first
  now,                \* wall clock, seconds
  envEvents,          \* number of environment events so far
  pc,                 \* per request: the await it is suspended at
  req,                \* per request: transport, sessionId, message, and
                      \*   socket.sessionId of the socket it arrived on
  chatHistory,        \* per request: const chatHistory
  queryHash,          \* per request: const queryHash
  cachedResult,       \* per request: let cachedResult (<<>> is null)
  relevantDocs,       \* per request: const relevantDocs of processQuery
  response,           \* per request: let response (<<>> is unassigned)
  delivered,          \* per request: what the client received
  calls,              \* per request: external calls made, in order
  ragResult,          \* per request: value processQuery returned
  degradedAt,         \* per request: handled while isQdrantAvailable = false
  writeTime,          \* per request: clock at its successful cache write
  priorWriters,       \* per request: requests whose write to the same key
                      \*   was unexpired when this request looked it up
  lookupTime,         \* per request: clock at its cache lookup
  genContexts         \* per request: the contexts passed to generateResponse

\* state of the socket handlers: the sockets, and per received join_session
\* or clear_session event its handler
VARIABLES
  typingEvents,       \* per request: the assistant_typing events its handler
                      \*   emitted, in order: <<[room, typing]>>
  reqSocket,          \* per request: the socket its event arrived on (0: the
                      \*   socket is not followed, or the request is HTTP)
  socketSessionId,    \* per socket: socket.sessionId ("none" is undefined)
  rooms,              \* per socket: the rooms it has joined
  joinHandler,        \* per join_session event: the await its handler is
                      \*   suspended at, its socket and data.sessionId, and
                      \*   the event it emitted to the socket
  clearHandler        \* the same per clear_session event

socketVars == <<reqSocket, socketSessionId, rooms, joinHandler, clearHandler>>

\* state of the news ingestion: the feeds, the payloads in Qdrant and, per
\* run of an ingest method, its local variables
VARIABLES
  serviceVariant,     \* which NewsIngestionService class the server loaded
  feeds,              \* per source: the items its RSS feed serves
  pointPayload,       \* the points in the collection: {[id, content]}
  ipc,                \* per run: the await it is suspended at
  entry,              \* per run: the method called and its sourceName
  srcIdx,             \* per run: position of the for-loop over rssSources
  items,              \* per run: items of the current feed still to process
  articles,           \* per run: const articles of ingestFromRSS
  allArticles,        \* per run: the documents collected / to be stored
  seenUrls,           \* per run: const seenUrls of ingestWithDeduplication
  seenTitles,         \* per run: const seenTitles
  batchStart,         \* per run: i of the batch loop of storeBatchDocuments
  storedIds,          \* per run: const results of storeBatchDocuments
  stats,              \* per run: the statistics returned (<<>> is none yet)
  fetched,            \* per run: the feed fetches made, in order
  processed,          \* per run: the items processed and their outcome
  embedded,           \* per run: the documents sent to generateEmbedding
  embedFailed,        \* per run: positions in the document list of the
                      \*   documents whose embedding failed
  upserted            \* per run: the id lists of the upsert calls that succeeded

ingestVars == <<serviceVariant, feeds, pointPayload, ipc, entry, srcIdx, items,
                articles, allArticles, seenUrls, seenTitles, batchStart,
                storedIds, stats, fetched, processed, embedded, embedFailed,
                 upserted>>

vars == <<isQdrantAvailable, points, cache, sessions, chat_history,
          now, envEvents, pc, req, chatHistory, queryHash,
          cachedResult, relevantDocs, response, delivered, calls, ragResult,
          degradedAt, writeTime, priorWriters, lookupTime, genContexts,
          typingEvents, socketVars, ingestVars>>

\* the runs of an ingest method that can be started
Runs == {1, 2}
\* positions of rssSources, in the order of the list
SourceOrder == <<1, 2>>
Sources == {SourceOrder[i] : i \in 1..Len(SourceOrder)}

NoEntry == [kind |-> "none", source |-> 0]

\* no ingest method has been called
IngestIdle ==
  /\ pointPayload = {}
  /\ ipc = [n \in Runs |-> "idle"]
  /\ entry = [n \in Runs |-> NoEntry]
  /\ srcIdx = [n \in Runs |-> 0]
  /\ items = [n \in Runs |-> <<>>]
  /\ articles = [n \in Runs |-> <<>>]
  /\ allArticles = [n \in Runs |-> <<>>]
  /\ seenUrls = [n \in Runs |-> {}]
  /\ seenTitles = [n \in Runs |-> {}]
  /\ batchStart = [n \in Runs |-> 0]
  /\ storedIds = [n \in Runs |-> <<>>]
  /\ stats = [n \in Runs |-> <<>>]
  /\ fetched = [n \in Runs |-> <<>>]
  /\ processed = [n \in Runs |-> <<>>]
  /\ embedded = [n \in Runs |-> <<>>]
  /\ embedFailed = [n \in Runs |-> {}]
  /\ upserted = [n \in Runs |-> <<>>]

store == <<isQdrantAvailable, points>>
locals == <<chatHistory, queryHash, cachedResult, relevantDocs, response>>
ghosts == <<ragResult, degradedAt, writeTime, priorWriters, lookupTime,
           genContexts>>

\* the sockets that are followed, and the join_session and clear_session
\* events they can send
Sockets == {1, 2}
Joins == {1, 2}
Clears == {1}

NoHandler == [pc |-> "idle", socket |-> 0, sessionId |-> "none", emitted |-> "none"]

\* no socket has sent an event
SocketIdle ==
  /\ typingEvents = [r \in Reqs |-> <<>>]
  /\ reqSocket = [r \in Reqs |-> 0]
  /\ socketSessionId = [k \in Sockets |-> "none"]
  /\ rooms = [k \in Sockets |-> {}]
  /\ joinHandler = [j \in Joins |-> NoHandler]
  /\ clearHandler = [c \in Clears |-> NoHandler]

NoReq == [transport |-> "none", sessionId |-> "none", message |-> "",
          socketSessionId |-> "none"]
NoDelivery == [status |-> "none", content |-> "", sources |-> <<>>, cached |-> FALSE]

Init ==
  /\ isQdrantAvailable \in BOOLEAN
  /\ points = Docs
  /\ cache = {}
  /\ sessions = {}
  /\ chat_history = [s \in Sessions |-> <<>>]
  /\ now = 0
  /\ envEvents = 0
  /\ pc = [r \in Reqs |-> "idle"]
  /\ req = [r \in Reqs |-> NoReq]
  /\ chatHistory = [r \in Reqs |-> <<>>]
  /\ queryHash = [r \in Reqs |-> <<>>]
  /\ cachedResult = [r \in Reqs |-> <<>>]
  /\ relevantDocs = [r \in Reqs |-> <<>>]
  /\ response = [r \in Reqs |-> <<>>]
  /\ delivered = [r \in Reqs |-> NoDelivery]
  /\ calls = [r \in Reqs |-> <<>>]
  /\ ragResult = [r \in Reqs |-> <<>>]
  /\ degradedAt = [r \in Reqs |-> FALSE]
  /\ writeTime = [r \in Reqs |-> -1]
  /\ priorWriters = [r \in Reqs |-> {}]
  /\ lookupTime = [r \in Reqs |-> -1]
  /\ genContexts = [r \in Reqs |-> <<>>]
  /\ SocketIdle
  /\ serviceVariant = "new"
  /\ feeds = [src \in Sources |-> <<>>]
  /\ IngestIdle

(* ---------------------------------------------------------------------- *)
(* RedisService: query cache                                              *)
(* ---------------------------------------------------------------------- *)
\* JSON.stringify / JSON.parse of a result object whose fields are all
\* defined strings, numbers and arrays
JsonStringify(v) == [json |-> v]
JsonParse(str) == str.json

\* faulty variant of RedisGet: an entry outlives its ttl
RedisGet_NoExpiry(key) == {e \in cache : e.key = key}

\* client.get(key): the unexpired entries stored under key (at most one)
RedisGet(key) == {e \in cache : e.key = key /\ now < e.expiresAt}

\* client.setEx(key, ttl, value): replaces the entry, expiry restarts
RedisSetEx(key, ttl, value) ==
  {e \in cache : e.key # key}
    \cup {[key |-> key, value |-> value, expiresAt |-> now + ttl]}

\* faulty variant of GetCachedQueryResult: a failed read is not a miss
GetCachedQueryResult_IgnoreFailure(key, ok) ==
  IF RedisGet(key) # {}
  THEN <<JsonParse((CHOOSE e \in RedisGet(key) : TRUE).value)>>
  ELSE <<>>

\* getCachedQueryResult: data ? JSON.parse(data) : null; a failing get is
\* caught and null returned
GetCachedQueryResult(key, ok) ==
  IF ok /\ RedisGet(key) # {}
  THEN <<JsonParse((CHOOSE e \in RedisGet(key) : TRUE).value)>>
  ELSE <<>>

\* faulty variant of CacheQueryResult: the entry is written already expired
CacheQueryResult_ZeroTtl(key, result, ttl, ok) ==
  IF ok THEN RedisSetEx(key, 0, JsonStringify(result)) ELSE cache

\* cacheQueryResult: the cache after the call; a failing setEx is caught
CacheQueryResult(key, result, ttl, ok) ==
  IF ok THEN RedisSetEx(key, ttl, JsonStringify(result)) ELSE cache

(* ---------------------------------------------------------------------- *)
(* RAGService.processQuery, piecewise                                     *)
(* ---------------------------------------------------------------------- *)
\* faulty variant of ShortCircuits: processQuery never short-circuits
ShortCircuits_Never(avail) == FALSE

\* if (!this.isQdrantAvailable) return {advisory}
ShortCircuits(avail) == ~avail

AdvisoryResult(qh) ==
  [response |-> AdvisoryText, sources |-> <<>>, queryHash |-> qh,
   relevantDocsCount |-> 0]

\* generateResponse(query, context, chatHistory) on success
GenerateResponse(context, text) ==
  [response |-> text, sources |-> SourcesOf(context)]

\* what processQuery returns once generateResponse has returned
ProcessQueryResult(docs, text, qh) ==
  IF Len(docs) = 0
  THEN [response |-> IF GenerateResponse(<<>>, text).response = ""
                     THEN NoDataText
                     ELSE GenerateResponse(<<>>, text).response,
        sources |-> <<>>, queryHash |-> qh, relevantDocsCount |-> 0]
  ELSE [response |-> GenerateResponse(docs, text).response,
        sources |-> GenerateResponse(docs, text).sources,
        queryHash |-> qh, relevantDocsCount |-> Len(docs)]

\* faulty variant of SearchSimilarDocuments: the search goes on after a
\* failed embedding
SearchSimilarDocuments_IgnoreEmbedFailure(avail, q, pts, limit, embedOk, searchOk) ==
  IF ~avail THEN <<>>
  ELSE IF ~searchOk THEN <<>>
  ELSE SearchCall(q, pts, limit)

\* searchSimilarDocuments(query, limit): [] when the store is unavailable,
\* when generateEmbedding throws and when the search throws (all caught)
SearchSimilarDocuments(avail, q, pts, limit, embedOk, searchOk) ==
  IF ~avail THEN <<>>
  ELSE IF ~embedOk THEN <<>>
  ELSE IF ~searchOk THEN <<>>
  ELSE SearchCall(q, pts, limit)

\* faulty variant of SearchCalls: the search is issued before the embedding
SearchCalls_SearchFirst(avail, embedOk, searchOk) ==
  IF ~avail THEN <<>>
  ELSE IF ~searchOk THEN <<"searchFail">>
  ELSE IF ~embedOk THEN <<"search", "embedFail">>
  ELSE <<"search", "embed">>

\* the provider calls searchSimilarDocuments makes, in order
SearchCalls(avail, embedOk, searchOk) ==
  IF ~avail THEN <<>>
  ELSE IF ~embedOk THEN <<"embedFail">>
  ELSE IF ~searchOk THEN <<"embed", "searchFail">>
  ELSE <<"embed", "search">>

\* faulty variant of ProcessQueryCalls: the no-candidates branch falls
\* through into the second generateResponse call
ProcessQueryCalls_FallThrough(avail, embedOk, searchOk, genOk) ==
  IF ShortCircuits(avail) THEN <<>>
  ELSE SearchCalls(avail, embedOk, searchOk)
         \o <<IF genOk THEN "generate" ELSE "generateFail",
              IF genOk THEN "generate" ELSE "generateFail">>

\* the provider calls of one processQuery, in order
ProcessQueryCalls(avail, embedOk, searchOk, genOk) ==
  IF ShortCircuits(avail) THEN <<>>
  ELSE SearchCalls(avail, embedOk, searchOk)
         \o <<IF genOk THEN "generate" ELSE "generateFail">>

FailedCalls == {"embedFail", "searchFail", "generateFail", "cacheGetFail",
                "cacheSetFail", "getHistoryFail", "addUserFail",
                "addAssistantFail"}

\* faulty variant of RagErrorResponse: the candidates stay attached
RagErrorResponse_KeepSources(docs) ==
  [response |-> ApologyText, sources |-> SourcesOf(docs)]

\* the socket handler's catch (ragError) block
RagErrorResponse(docs) == [response |-> ApologyText, sources |-> <<>>]

(* ---------------------------------------------------------------------- *)
(* Helpers of the handlers                                                *)
(* ---------------------------------------------------------------------- *)
LogAll(r, cs) == calls' = [calls EXCEPT ![r] = @ \o cs]
Log(r, c) == LogAll(r, <<c>>)

ErrorDelivery(text) ==
  [status |-> "error", content |-> text, sources |-> <<>>, cached |-> FALSE]

\* `msg_${Date.now()}_${random}`: a fresh id for every stored message; a
\* request stores at most one message of each role
MsgId(r, role) == <<r, role>>

\* chatMessage built by addChatMessage
ChatMessage(id, role, content, sources) ==
  [id |-> id, role |-> role, content |-> content, sources |-> sources]

\* lPush + lTrim(0, 99) of addChatMessage
AddChatMessage(list, msg) == LTrim(LPush(list, msg), HistoryTrimStop)

\* getChatHistory(sessionId, limit); a failing lRange is caught, [] returned
GetChatHistoryResult(list, limit, ok) ==
  IF ok THEN Reverse(LRange(list, limit - 1)) ELSE <<>>

\* io.to(room).emit('assistant_typing', { typing })
AssistantTyping(room, typing) == [room |-> room, typing |-> typing]

Emit(r, events) == typingEvents' = [typingEvents EXCEPT ![r] = @ \o events]

\* io.to(sessionId).emit('assistant_typing', { typing: true }) before
\* processQuery; the HTTP route has no such event
TypingOn(r) ==
  IF req[r].transport = "socket"
  THEN <<AssistantTyping(req[r].sessionId, TRUE)>> ELSE <<>>

\* io.to(sessionId).emit('assistant_typing', { typing: false }) after the
\* response is known, before the reply is stored
TypingOff(r) ==
  IF req[r].transport = "socket"
  THEN <<AssistantTyping(req[r].sessionId, FALSE)>> ELSE <<>>

\* socket.sessionId when the outer catch of the 'message' handler runs
CatchRoom(r) ==
  IF reqSocket[r] = 0 THEN req[r].socketSessionId ELSE socketSessionId[reqSocket[r]]

\* if (socket.sessionId) io.to(socket.sessionId).emit('assistant_typing',
\* { typing: false }) in the outer catch of the 'message' handler
CatchTyping(r) ==
  IF req[r].transport = "socket" /\ CatchRoom(r) # "none"
  THEN <<AssistantTyping(CatchRoom(r), FALSE)>> ELSE <<>>

\* the outer catch of a handler: HTTP 500 / socket 'error' event
HandlerCatch(r) ==
  /\ delivered' = [delivered EXCEPT ![r] = ErrorDelivery("Failed to process message")]
  /\ pc' = [pc EXCEPT ![r] = "done"]

\* n environment events happen in this step
Env(n) ==
  /\ envEvents + n <= MaxEnvEvents
  /\ envEvents' = envEvents + n

\* a call of Redis or of a provider returns (ok) or fails (an event)
Outcome(ok) == Env(IF ok THEN 0 ELSE 1)

(* ---------------------------------------------------------------------- *)
(* Server life cycle and clock                                            *)
(* ---------------------------------------------------------------------- *)
InFlight(r) == pc[r] \notin {"idle", "done", "aborted"}

\* The server process is restarted: initialize() runs again and sets
\* isQdrantAvailable from the outcome of ensureCollection(); handlers in
\* flight are gone, Redis and Qdrant keep their data.
Restart(avail) ==
  /\ Env(1)
  /\ isQdrantAvailable' = avail
  /\ pc' = [r \in Reqs |-> IF InFlight(r) THEN "aborted" ELSE pc[r]]
  /\ UNCHANGED <<points, cache, sessions, chat_history, now, req,
                 locals, delivered, calls, ghosts>>
  /\ UNCHANGED <<typingEvents, socketVars>>
  /\ UNCHANGED ingestVars

Tick ==
  /\ now + TickStep <= MaxTime
  /\ Env(1)
  /\ now' = now + TickStep
  /\ UNCHANGED <<store, cache, sessions, chat_history, pc, req,
                 locals, delivered, calls, ghosts>>
  /\ UNCHANGED <<typingEvents, socketVars>>
  /\ UNCHANGED ingestVars

(* ---------------------------------------------------------------------- *)
(* The chat handlers: router.post('/message') and socket.on('message')    *)
(* ---------------------------------------------------------------------- *)
\* faulty variant of NotJoined: a socket that has joined some session passes
NotJoined_OnlyUnjoined(joined, s) == joined = "none"

\* !socket.sessionId || socket.sessionId !== sessionId
NotJoined(joined, s) == joined = "none" \/ joined # s

\* A request arrives on transport t for session s with text m; for a socket
\* event, joined is the sessionId property of the socket.  The handler
\* validates its input; the HTTP route gets or creates the session, the
\* socket handler does not.
Receive(r, t, s, m, joined) ==
  /\ pc[r] = "idle"
  /\ \A q \in Reqs : q < r => pc[q] # "idle"
  /\ t = "http" => joined = "none"
  /\ \A i \in 1..Len(SessionOrder) :
        SessionOrder[i] = s =>
          \A j \in 1..(i - 1) : \E q \in Reqs : pc[q] # "idle" /\ req[q].sessionId = SessionOrder[j]
  /\ req' = [req EXCEPT ![r] = [transport |-> t, sessionId |-> s, message |-> m,
                                socketSessionId |-> joined]]
  /\ degradedAt' = [degradedAt EXCEPT ![r] = ~isQdrantAvailable]
  /\ IF m = ""
     THEN /\ delivered' = [delivered EXCEPT ![r] = ErrorDelivery("Message and sessionId are required")]
          /\ pc' = [pc EXCEPT ![r] = "done"]
          /\ UNCHANGED sessions
     ELSE IF t = "socket" /\ NotJoined(joined, s)
     THEN /\ delivered' = [delivered EXCEPT ![r] = ErrorDelivery("Not joined to this session")]
          /\ pc' = [pc EXCEPT ![r] = "done"]
          /\ UNCHANGED sessions
     ELSE /\ pc' = [pc EXCEPT ![r] = "getHistory"]
          /\ sessions' = IF t = "http" THEN sessions \cup {s} ELSE sessions
          /\ UNCHANGED delivered
  /\ UNCHANGED <<store, cache, chat_history, now, envEvents, locals,
                 calls, ragResult, writeTime, priorWriters, lookupTime,
                 genContexts>>
  /\ UNCHANGED <<typingEvents, socketSessionId, rooms, joinHandler, clearHandler>>
  /\ UNCHANGED ingestVars

\* const chatHistory = await redisService.getChatHistory(sessionId, 10)
GetChatHistory(r, ok) ==
  /\ pc[r] = "getHistory"
  /\ Outcome(ok)
  /\ chatHistory' = [chatHistory EXCEPT ![r] =
       GetChatHistoryResult(chat_history[req[r].sessionId], HistoryLimit, ok)]
  /\ LogAll(r, IF ok THEN <<>> ELSE <<"getHistoryFail">>)
  /\ pc' = [pc EXCEPT ![r] = "addUser"]
  /\ UNCHANGED <<store, cache, sessions, chat_history, now, req,
                 queryHash, cachedResult, relevantDocs, response, delivered,
                 ghosts>>
  /\ UNCHANGED <<typingEvents, socketVars>>
  /\ UNCHANGED ingestVars

\* addChatMessage(user message), then the query hash is computed
AddUserMessage(r, ok) ==
  /\ pc[r] = "addUser"
  /\ Outcome(ok)
  /\ IF ok
     THEN /\ chat_history' = [chat_history EXCEPT ![req[r].sessionId] =
               AddChatMessage(@, ChatMessage(MsgId(r, "user"), "user", req[r].message, <<>>))]
          /\ queryHash' = [queryHash EXCEPT ![r] = QueryHash(req[r].message, chatHistory[r])]
          /\ pc' = [pc EXCEPT ![r] = "cacheGet"]
          /\ UNCHANGED <<delivered, calls>>
     ELSE /\ HandlerCatch(r)
          /\ Log(r, "addUserFail")
          /\ UNCHANGED <<chat_history, queryHash>>
  /\ UNCHANGED <<store, cache, sessions, now, req, chatHistory, cachedResult,
                 relevantDocs, response, ghosts>>
  /\ Emit(r, IF ok THEN <<>> ELSE CatchTyping(r))
  /\ UNCHANGED socketVars
  /\ UNCHANGED ingestVars

\* faulty variant of AfterLookup: the hit does not skip processQuery
AfterLookup_AlwaysProcess(cachedRes) == "process"

\* if (cachedResult) { response = cachedResult } else { processQuery ... }
AfterLookup(cachedRes) == IF cachedRes # <<>> THEN "addAssistant" ELSE "process"

\* let cachedResult = await getCachedQueryResult(queryHash); on a hit the
\* response is the cached result, on a miss it is still unassigned
CacheLookup(r, ok) ==
  /\ pc[r] = "cacheGet"
  /\ Outcome(ok)
  /\ Log(r, IF ok THEN "cacheGet" ELSE "cacheGetFail")
  /\ priorWriters' = [priorWriters EXCEPT ![r] =
       {w \in Reqs : /\ writeTime[w] >= 0
                     /\ queryHash[w] = queryHash[r]
                     /\ now < writeTime[w] + CacheTTL}]
  /\ lookupTime' = [lookupTime EXCEPT ![r] = now]
  /\ cachedResult' = [cachedResult EXCEPT ![r] = GetCachedQueryResult(queryHash[r], ok)]
  /\ response' = [response EXCEPT ![r] = cachedResult'[r]]
  /\ pc' = [pc EXCEPT ![r] = AfterLookup(cachedResult'[r])]
  /\ UNCHANGED <<store, cache, sessions, chat_history, now, req,
                 chatHistory, queryHash, relevantDocs, delivered, ragResult,
                 degradedAt, writeTime, genContexts>>
  /\ Emit(r, IF cachedResult'[r] # <<>> THEN TypingOff(r) ELSE TypingOn(r))
  /\ UNCHANGED socketVars
  /\ UNCHANGED ingestVars

\* response = await ragService.processQuery(message, chatHistory): the
\* short circuit, searchSimilarDocuments, generateResponse.  A failure of
\* the generation provider is rethrown by generateResponse and by
\* processQuery: the socket handler catches it around processQuery, the
\* HTTP route in its outer catch.
ProcessQuery(r, embedOk, searchOk, genOk, text) ==
  /\ pc[r] = "process"
  /\ Env(Len(SelectSeq(ProcessQueryCalls(isQdrantAvailable, embedOk, searchOk, genOk),
                       LAMBDA c : c \in FailedCalls)))
  \* a call that is not made has no outcome
  /\ (ShortCircuits(isQdrantAvailable) \/ ~genOk) => text = ""
  /\ ShortCircuits(isQdrantAvailable) => embedOk /\ searchOk /\ genOk
  /\ ~embedOk => searchOk
  /\ IF ShortCircuits(isQdrantAvailable)
     THEN /\ ragResult' = [ragResult EXCEPT ![r] =
               <<AdvisoryResult(ProcessQueryHash(req[r].message, chatHistory[r]))>>]
          /\ response' = [response EXCEPT ![r] = ragResult'[r]]
          /\ pc' = [pc EXCEPT ![r] = "cacheSet"]
          /\ UNCHANGED <<relevantDocs, calls, genContexts, delivered>>
     ELSE /\ relevantDocs' = [relevantDocs EXCEPT ![r] =
               SearchSimilarDocuments(isQdrantAvailable, req[r].message, points,
                                      SearchLimit, embedOk, searchOk)]
          /\ genContexts' = [genContexts EXCEPT ![r] = Append(@, relevantDocs'[r])]
          /\ LogAll(r, ProcessQueryCalls(isQdrantAvailable, embedOk, searchOk, genOk))
          /\ IF genOk
             THEN /\ ragResult' = [ragResult EXCEPT ![r] =
                       <<ProcessQueryResult(relevantDocs'[r], text,
                            ProcessQueryHash(req[r].message, chatHistory[r]))>>]
                  /\ response' = [response EXCEPT ![r] = ragResult'[r]]
                  /\ pc' = [pc EXCEPT ![r] = "cacheSet"]
                  /\ UNCHANGED delivered
             ELSE /\ UNCHANGED ragResult
                  /\ IF req[r].transport = "socket"
                     THEN /\ response' = [response EXCEPT ![r] =
                               <<RagErrorResponse(relevantDocs'[r])>>]
                          /\ pc' = [pc EXCEPT ![r] = "addAssistant"]
                          /\ UNCHANGED delivered
                     ELSE /\ HandlerCatch(r)
                          /\ UNCHANGED response
  /\ UNCHANGED <<store, cache, sessions, chat_history, now, req,
                 chatHistory, queryHash, cachedResult, degradedAt, writeTime,
                 priorWriters, lookupTime>>
  /\ Emit(r, IF ~ShortCircuits(isQdrantAvailable) /\ ~genOk THEN TypingOff(r) ELSE <<>>)
  /\ UNCHANGED socketVars
  /\ UNCHANGED ingestVars

\* await redisService.cacheQueryResult(queryHash, response, 30 * 60)
CacheStore(r, ok) ==
  /\ pc[r] = "cacheSet"
  /\ Outcome(ok)
  /\ Log(r, IF ok THEN "cacheSet" ELSE "cacheSetFail")
  /\ cache' = CacheQueryResult(queryHash[r], response[r][1], CacheTTL, ok)
  /\ writeTime' = [writeTime EXCEPT ![r] = IF ok THEN now ELSE @]
  /\ pc' = [pc EXCEPT ![r] = "addAssistant"]
  /\ UNCHANGED <<store, sessions, chat_history, now, req, locals,
                 delivered, ragResult, degradedAt, priorWriters, lookupTime,
                 genContexts>>
  /\ Emit(r, TypingOff(r))
  /\ UNCHANGED socketVars
  /\ UNCHANGED ingestVars

\* res.json({assistantMessage, sources, cached}) / emit('assistant_message')
OkDelivery(resp, cachedRes) ==
  [status |-> "ok", content |-> resp.response, sources |-> resp.sources,
   cached |-> cachedRes # <<>>]

\* addChatMessage(assistant message), getSession (errors caught), and the
\* reply: res.json on the HTTP route, 'assistant_message' on the socket
AddAssistantMessage(r, ok) ==
  /\ pc[r] = "addAssistant"
  /\ Outcome(ok)
  /\ IF ok
     THEN /\ chat_history' = [chat_history EXCEPT ![req[r].sessionId] =
               AddChatMessage(@, ChatMessage(MsgId(r, "assistant"), "assistant",
                                  response[r][1].response, response[r][1].sources))]
          /\ pc' = [pc EXCEPT ![r] = "done"]
          /\ delivered' = [delivered EXCEPT ![r] = OkDelivery(response[r][1], cachedResult[r])]
          /\ UNCHANGED calls
     ELSE /\ HandlerCatch(r)
          /\ Log(r, "addAssistantFail")
          /\ UNCHANGED chat_history
  /\ UNCHANGED <<store, cache, sessions, now, req, locals, ghosts>>
  /\ Emit(r, IF ok THEN <<>> ELSE CatchTyping(r))
  /\ UNCHANGED socketVars
  /\ UNCHANGED ingestVars

Next ==
  \/ \E avail \in BOOLEAN : Restart(avail)
  \/ Tick
  \/ \E r \in Reqs, t \in Transports, s \in Sessions, m \in Messages :
        \E joined \in {"none", s} :
           Receive(r, t, s, m, joined) /\ UNCHANGED reqSocket
  \/ \E r \in Reqs, ok \in BOOLEAN : GetChatHistory(r, ok)
  \/ \E r \in Reqs, ok \in BOOLEAN : AddUserMessage(r, ok)
  \/ \E r \in Reqs, ok \in BOOLEAN : CacheLookup(r, ok)
  \/ \E r \in Reqs, embedOk \in BOOLEAN, searchOk \in BOOLEAN, genOk \in BOOLEAN,
        text \in GenTexts : ProcessQuery(r, embedOk, searchOk, genOk, text)
  \/ \E r \in Reqs, ok \in BOOLEAN : CacheStore(r, ok)
  \/ \E r \in Reqs, ok \in BOOLEAN : AddAssistantMessage(r, ok)

Spec == Init /\ [][Next]_vars

(* ---------------------------------------------------------------------- *)
(* Properties                                                             *)
(* ---------------------------------------------------------------------- *)
Has(r, c) == \E i \in DOMAIN calls[r] : calls[r][i] = c
Count(r, C) == Cardinality({i \in DOMAIN calls[r] : calls[r][i] \in C})
RetrievalCalls == {"embed", "embedFail", "search", "searchFail",
                   "generate", "generateFail"}
GenerationCalls == {"generate", "generateFail"}
\* processQuery was called and has returned or thrown
AfterProcess(r) ==
  /\ Has(r, "cacheGet") \/ Has(r, "cacheGetFail")
  /\ cachedResult[r] = <<>>
  /\ pc[r] \in {"cacheSet", "addAssistant", "done"}

\* C1: on a cache hit the handler delivers exactly the response and the
\* sources of the entry stored under the fingerprint, marks the reply as
\* cached, and makes no embedding, vector-search or generation call.
C1_CacheHitServedUnchanged ==
  /\ [](\A r \in Reqs :
          cachedResult[r] # <<>> =>
            /\ Count(r, RetrievalCalls) = 0
            /\ genContexts[r] = <<>>
            /\ delivered[r].status = "ok" =>
                 /\ delivered[r].content = cachedResult[r][1].response
                 /\ delivered[r].sources = cachedResult[r][1].sources
                 /\ delivered[r].cached)
  /\ [][\A r \in Reqs :
          (cachedResult[r] = <<>> /\ cachedResult'[r] # <<>>) =>
            \E e \in cache : /\ e.key = queryHash[r]
                             /\ now < e.expiresAt
                             /\ e.value.json = cachedResult'[r][1]]_vars

C1_Witness ==
  \E r \in Reqs : /\ cachedResult[r] # <<>>
                  /\ delivered[r].status = "ok"
                  /\ delivered[r].sources # <<>>

\* C2 as stated: two requests with the same fingerprint inside the TTL
\* window, none of whose calls failed, receive the same response and the
\* generation provider was invoked at most once for the fingerprint.
C2_SameFingerprintOneGeneration ==
  \A r1, r2 \in Reqs :
    ( /\ r1 # r2
      /\ queryHash[r1] = queryHash[r2]
      /\ delivered[r1].status = "ok" /\ delivered[r2].status = "ok"
      /\ Count(r1, FailedCalls) = 0 /\ Count(r2, FailedCalls) = 0
      /\ \A w \in {r1, r2} : writeTime[w] >= 0 => now < writeTime[w] + CacheTTL )
    => /\ delivered[r1].content = delivered[r2].content
       /\ delivered[r1].sources = delivered[r2].sources
       /\ Count(r1, GenerationCalls) + Count(r2, GenerationCalls) <= 1

\* C2 amended: a request whose cache lookup succeeds while the cache write of
\* an earlier request for the same fingerprint is unexpired has a hit, makes
\* no generation call, and is delivered a response that processQuery
\* returned to one of those earlier requests.
C2_SequentialRequestsShareResponse ==
  \A r \in Reqs :
    (priorWriters[r] # {} /\ Has(r, "cacheGet")) =>
      /\ cachedResult[r] # <<>>
      /\ Count(r, GenerationCalls) = 0
      /\ delivered[r].status = "ok" =>
           \E w \in priorWriters[r] :
             /\ ragResult[w] # <<>>
             /\ delivered[r].content = ragResult[w][1].response
             /\ delivered[r].sources = ragResult[w][1].sources
             /\ delivered[w].status = "ok" =>
                  delivered[w].content = delivered[r].content

C2_Witness ==
  \E r \in Reqs : /\ priorWriters[r] # {}
                  /\ Has(r, "cacheGet")
                  /\ delivered[r].status = "ok"
                  /\ \E w \in priorWriters[r] : delivered[w].status = "ok"

\* C3: with isQdrantAvailable = false processQuery makes no embedding,
\* search or generation call, never throws, and returns the fixed advisory
\* text with sources = [] and relevantDocsCount = 0.
C3_DegradedShortCircuit ==
  \A r \in Reqs :
    degradedAt[r] =>
      /\ Count(r, RetrievalCalls) = 0
      /\ genContexts[r] = <<>>
      /\ AfterProcess(r) =>
           /\ ragResult[r] # <<>>
           /\ ragResult[r][1].response = AdvisoryText
           /\ ragResult[r][1].sources = <<>>
           /\ ragResult[r][1].relevantDocsCount = 0

C3_Witness ==
  \E r \in Reqs : degradedAt[r] /\ AfterProcess(r) /\ ragResult[r] # <<>>

\* C4 as stated: every query answered while the vector store is unavailable
\* gets the advisory text with empty sources, whatever the cache holds.
C4_DegradedAlwaysAdvisory ==
  \A r \in Reqs :
    (degradedAt[r] /\ delivered[r].status = "ok") =>
      /\ delivered[r].content = AdvisoryText
      /\ delivered[r].sources = <<>>

\* C5: every candidate searchSimilarDocuments returns scores at or above
\* the threshold, at most 5 are returned, and so does every document put
\* in a generation context or in the sources of a result or of a reply.
C5_RelevanceGate ==
  \A r \in Reqs :
    LET q == req[r].message
        Relevant(ids) == \A i \in DOMAIN ids : Score(q, ids[i]) >= ScoreThreshold
    IN  /\ Len(relevantDocs[r]) <= SearchLimit
        /\ Relevant(SourcesOf(relevantDocs[r]))
        /\ \A i \in DOMAIN relevantDocs[r] : relevantDocs[r][i].score >= ScoreThreshold
        /\ \A c \in DOMAIN genContexts[r] :
             Len(genContexts[r][c]) <= SearchLimit /\ Relevant(SourcesOf(genContexts[r][c]))
        /\ ragResult[r] # <<>> => Relevant(ragResult[r][1].sources)
        /\ delivered[r].status = "ok" => Relevant(delivered[r].sources)

C5_Witness ==
  \E r \in Reqs :
    /\ Has(r, "search")
    /\ Len(relevantDocs[r]) = SearchLimit
    /\ \E d \in points : Score(req[r].message, d) < ScoreThreshold
    /\ Cardinality({d \in points : Score(req[r].message, d) >= ScoreThreshold}) > SearchLimit
    /\ delivered[r].status = "ok"

\* C6: when the search returns no candidate, processQuery calls the
\* generation provider exactly once, with an empty context, and a result it
\* returns has sources = [] and relevantDocsCount = 0.
C6_NoCandidatesStillGenerates ==
  \A r \in Reqs :
    (Has(r, "search") /\ relevantDocs[r] = <<>>) =>
      /\ Count(r, GenerationCalls) = 1
      /\ genContexts[r] = << <<>> >>
      /\ ragResult[r] # <<>> =>
           /\ ragResult[r][1].sources = <<>>
           /\ ragResult[r][1].relevantDocsCount = 0

C6_Witness ==
  \E r \in Reqs : /\ Has(r, "search")
                  /\ relevantDocs[r] = <<>>
                  /\ ragResult[r] # <<>>
                  /\ ragResult[r][1].response = NoDataText

\* C7 as stated: when embedding the query fails the query ends as a
\* pipeline failure: no search, no generation call, no result.
C7_EmbeddingFailurePropagates ==
  \A r \in Reqs :
    Has(r, "embedFail") =>
      /\ ~Has(r, "search") /\ ~Has(r, "searchFail")
      /\ Count(r, GenerationCalls) = 0
      /\ ragResult[r] = <<>>

\* C7 amended: when embedding the query fails, searchSimilarDocuments
\* returns no candidates without searching, and processQuery continues on
\* the no-candidates path: one generation call with an empty context, and a
\* result (when generation succeeds) with sources = [] and
\* relevantDocsCount = 0.
C7_EmbeddingFailureSwallowed ==
  \A r \in Reqs :
    Has(r, "embedFail") =>
      /\ ~Has(r, "search") /\ ~Has(r, "searchFail")
      /\ relevantDocs[r] = <<>>
      /\ Count(r, GenerationCalls) = 1
      /\ genContexts[r] = << <<>> >>
      /\ Has(r, "generate") =>
           /\ ragResult[r] # <<>>
           /\ ragResult[r][1].sources = <<>>
           /\ ragResult[r][1].relevantDocsCount = 0

C7_Witness ==
  \E r \in Reqs : /\ Has(r, "embedFail")
                  /\ req[r].message = "q1"
                  /\ delivered[r].status = "ok"
                  /\ delivered[r].content = "g1"

\* C8 as stated: when the generation provider fails, the client of either
\* transport receives the fixed apologetic message as the assistant reply.
C8_GenerationFailureApology ==
  \A r \in Reqs :
    (Has(r, "generateFail") /\ pc[r] = "done" /\ ~Has(r, "addAssistantFail")) =>
      /\ delivered[r].status = "ok"
      /\ delivered[r].content = ApologyText

\* C9 as stated: the apologetic reply delivered after a generation failure
\* carries the retrieved candidates as its sources.
C9_FallbackKeepsSources ==
  \A r \in Reqs :
    (Has(r, "generateFail") /\ relevantDocs[r] # <<>> /\ delivered[r].status = "ok") =>
      delivered[r].sources = SourcesOf(relevantDocs[r])

\* C9 amended: when generation fails after candidates were retrieved, no
\* reply carries them: the socket handler delivers the apologetic message
\* with sources = [], the HTTP route delivers an error.
C9_FallbackDropsSources ==
  \A r \in Reqs :
    (Has(r, "generateFail") /\ relevantDocs[r] # <<>> /\ pc[r] = "done") =>
      /\ delivered[r].sources = <<>>
      /\ delivered[r].status = "ok" =>
           /\ req[r].transport = "socket"
           /\ delivered[r].content = ApologyText
      /\ delivered[r].status = "error" =>
           req[r].transport = "http" \/ Has(r, "addAssistantFail")

C9_Witness ==
  \E r \in Reqs : /\ Has(r, "generateFail")
                  /\ Len(relevantDocs[r]) = SearchLimit
                  /\ delivered[r].status = "ok"

\* C10: a failing cache read is treated as a miss (processQuery runs, with
\* the full retrieval path when the store is available) and never produces
\* an error reply; after a failing cache write the client is delivered the
\* result of processQuery unchanged.
C10_CacheFailureHarmless ==
  \A r \in Reqs :
    /\ Has(r, "cacheGetFail") =>
         /\ cachedResult[r] = <<>>
         /\ pc[r] \in {"process", "cacheSet", "addAssistant", "done", "aborted"}
         /\ AfterProcess(r) =>
              /\ ragResult[r] # <<>> \/ Has(r, "generateFail")
              /\ ~degradedAt[r] => Has(r, "embed") \/ Has(r, "embedFail")
         /\ delivered[r].status = "error" =>
              Has(r, "generateFail") \/ Has(r, "addAssistantFail")
    /\ (Has(r, "cacheSetFail") /\ pc[r] = "done" /\ ~Has(r, "addAssistantFail")) =>
         /\ delivered[r].status = "ok"
         /\ ~delivered[r].cached
         /\ delivered[r].content = ragResult[r][1].response
         /\ delivered[r].sources = ragResult[r][1].sources

C10_Witness ==
  \E r \in Reqs : /\ Has(r, "cacheGetFail")
                  /\ priorWriters[r] # {}
                  /\ Has(r, "generate")
                  /\ Has(r, "cacheSet")
                  /\ delivered[r].status = "ok"
                  /\ delivered[r].sources # <<>>

\* C11 as stated: a query cache entry is written only by a request that
\* missed the cache and whose generation call succeeded (never for the
\* degraded-mode advisory, a generation-failure fallback or a hit), and no
\* step of the pipeline removes the entry of a key.
C11_EntryOnlyAfterGeneration ==
  [][/\ \A e \in cache' \ cache :
          \E r \in Reqs : /\ pc[r] = "cacheSet"
                          /\ e.key = queryHash[r]
                          /\ cachedResult[r] = <<>>
                          /\ Has(r, "generate")
                          /\ e.value = JsonStringify(ragResult[r][1])
                          /\ e.value.json.response # AdvisoryText
     /\ \A e \in cache : \E f \in cache' : f.key = e.key]_vars

(* ---------------------------------------------------------------------- *)
(* The cache fingerprint as a function of its inputs                      *)
(* ---------------------------------------------------------------------- *)
\* longest chat history a handler is given here
MaxHistLen == 4

\* chat messages stored by earlier requests of a session
Turns == {ChatMessage(<<0, "user">>, "user", "q1", <<>>),
          ChatMessage(<<0, "assistant">>, "assistant", "g1", <<1>>)}
Histories == UNION {[1..n -> Turns] : n \in 0..MaxHistLen}

\* Two handlers, one per session, have read the chat history of their
\* session and are about to store the user message and compute the hash.
HashInit ==
  /\ isQdrantAvailable = TRUE
  /\ points = Docs
  /\ cache = {}
  /\ sessions = Sessions
  /\ now = 0
  /\ envEvents = 0
  /\ pc = [r \in Reqs |-> "addUser"]
  /\ \E t \in [Reqs -> Transports], m \in [Reqs -> Messages \ {""}] :
       req = [r \in Reqs |->
                [transport |-> t[r], sessionId |-> SessionOrder[r], message |-> m[r],
                 socketSessionId |-> IF t[r] = "socket" THEN SessionOrder[r] ELSE "none"]]
  /\ chatHistory \in [Reqs -> Histories]
  /\ chat_history = [s \in Sessions |->
                       Reverse(chatHistory[CHOOSE r \in Reqs : SessionOrder[r] = s])]
  /\ queryHash = [r \in Reqs |-> <<>>]
  /\ cachedResult = [r \in Reqs |-> <<>>]
  /\ relevantDocs = [r \in Reqs |-> <<>>]
  /\ response = [r \in Reqs |-> <<>>]
  /\ delivered = [r \in Reqs |-> NoDelivery]
  /\ calls = [r \in Reqs |-> <<>>]
  /\ ragResult = [r \in Reqs |-> <<>>]
  /\ degradedAt = [r \in Reqs |-> FALSE]
  /\ writeTime = [r \in Reqs |-> -1]
  /\ priorWriters = [r \in Reqs |-> {}]
  /\ lookupTime = [r \in Reqs |-> -1]
  /\ genContexts = [r \in Reqs |-> <<>>]
  /\ SocketIdle
  /\ serviceVariant = "new"
  /\ feeds = [src \in Sources |-> <<>>]
  /\ IngestIdle

\* the handler up to the return of processQuery, every call succeeding
HashNext ==
  \/ \E r \in Reqs : AddUserMessage(r, TRUE)
  \/ \E r \in Reqs : CacheLookup(r, TRUE)
  \/ \E r \in Reqs : ProcessQuery(r, TRUE, TRUE, TRUE, "g1")

HashSpec == HashInit /\ [][HashNext]_vars

\* C12: the keys of two requests are equal exactly when their query texts
\* and the last 3 turns of their histories are equal, whatever the older
\* turns and whichever handler computed them, and processQuery computes the
\* key of its handler.
C12_FingerprintOfQueryAndLast3 ==
  \A r1, r2 \in Reqs :
    /\ (pc[r1] # "addUser" /\ pc[r2] # "addUser") =>
         ( queryHash[r1] = queryHash[r2]
           <=> /\ req[r1].message = req[r2].message
               /\ SliceLast(chatHistory[r1], 3) = SliceLast(chatHistory[r2], 3) )
    /\ ragResult[r1] # <<>> => ragResult[r1][1].queryHash = queryHash[r1]

C12_Witness ==
  \E r1, r2 \in Reqs :
    /\ req[r1].transport = "http" /\ req[r2].transport = "socket"
    /\ Len(chatHistory[r1]) = 4 /\ Len(chatHistory[r2]) = 4
    /\ chatHistory[r1][1] # chatHistory[r2][1]
    /\ queryHash[r1] = queryHash[r2]
    /\ ragResult[r1] # <<>> /\ ragResult[r2] # <<>>
    /\ ragResult[r1][1].queryHash = ragResult[r2][1].queryHash

(* ---------------------------------------------------------------------- *)
(* News ingestion: NewsIngestionService and                               *)
(* RAGService.storeBatchDocuments                                         *)
(* ---------------------------------------------------------------------- *)
\* longest feed of a source when one run is studied
MaxFeedLen == 2
\* longest feed of a source when two runs are studied together
MaxFeedLenTwoRuns == 1

\* if (content.length < 100) return null
MinContentLength == 100
\* if (content.length > 6000) content = content.substring(0, 6000) + '...'
MaxContentLength == 6000
\* if (content.length < 200 && item.link) scrapeFullArticle(item.link)
ScrapeBelow == 200
\* scrapeFullArticle: return content.length > 200 ? content : null
ScrapeMin == 200
\* scrapeFullArticle: content.substring(0, 5000) + '...'
ScrapeMax == 5000
\* length of the truncation marker '...'
MarkerLen == 3
\* const batchSize = 10 of storeBatchDocuments
BatchSize == 10

\* the class of newsIngestionService.js and the older one of newsIngestion.js
Variants == {"new", "old"}
\* feed.items.slice(0, 15), slice(0, 20) in the older class
ItemLimit(variant) == IF variant = "new" THEN 15 ELSE 20
\* the ingest methods of a class
EntryKinds(variant) ==
  IF variant = "new" THEN {"all", "dedup", "single"} ELSE {"all", "single"}

\* A text is known by where it comes from, how many of its leading
\* characters are kept, whether the marker '...' follows them, and whether
\* cleanText has been applied to it.
Text(of, len) == [of |-> of, len |-> len, marker |-> FALSE, clean |-> FALSE]
Length(t) == t.len + (IF t.marker THEN MarkerLen ELSE 0)
\* faulty variant of Truncate: the marker is appended to the whole text
Truncate_NoCut(t, k) == [t EXCEPT !.marker = TRUE]

\* t.substring(0, k) + '...', for a text without marker
Truncate(t, k) == [t EXCEPT !.len = Min(t.len, k), !.marker = TRUE]

\* cleanText: tags, repeated whitespace and special characters (junk of
\* them in the raw text) are removed; a cleaned text has none left
CleanText(t, junk) ==
  IF t.clean THEN t
  ELSE [t EXCEPT !.len = IF t.len > junk THEN t.len - junk ELSE 0, !.clean = TRUE]

\* the value of a field the feed item does not have
Undefined == "undefined"
\* the operand of || is skipped: undefined or the empty string
Falsy(v) == v = Undefined \/ v = ""

\* Feed items: link, guid and title (Undefined when the feed has no such
\* element, "" when the element is empty), the length
\* raw of contentSnippet || content || description, the characters junk
\* that cleanText removes from a text of the item, and the length page of
\* the text extracted from the article page (0: the page cannot be fetched).
Item(link, guid, title, raw, junk, page) ==
  [link |-> link, guid |-> guid, title |-> title, raw |-> raw, junk |-> junk,
   page |-> page]
ItemCatalogue ==
  << Item("u1", Undefined, "t1", 250, 10, 0),
     Item("u2", Undefined, "T1!", 7000, 999, 0),
     Item("u3", Undefined, "t3", 99, 0, 150),
     Item("u1", Undefined, "t4", 150, 0, 300),
     Item(Undefined, Undefined, Undefined, 300, 0, 0),
     Item(Undefined, "g6", "t6", 120, 20, 0),
     Item("u7", Undefined, "t7", 6000, 0, 0) >>

RECURSIVE SeqOfIndices(_)
\* the items of the catalogue at the positions S, in catalogue order
SeqOfIndices(S) ==
  IF S = {} THEN <<>>
  ELSE LET i == CHOOSE j \in S : \A k \in S : j <= k
       IN  <<ItemCatalogue[i]>> \o SeqOfIndices(S \ {i})
\* the feeds of at most k items
FeedsUpTo(k) ==
  {SeqOfIndices(S) : S \in {T \in SUBSET DOMAIN ItemCatalogue : Cardinality(T) <= k}}

\* scrapeFullArticle(url): the extracted text, null when the request fails
\* or too little is extracted; the newer class cleans and clamps it
ScrapeFullArticle(item, variant) ==
  LET raw == Text("page", item.page)
      cleaned == CleanText(raw, item.junk)
      clamped == IF Length(cleaned) > ScrapeMax THEN Truncate(cleaned, ScrapeMax)
                 ELSE cleaned
      content == IF variant = "new" THEN clamped ELSE raw
  IN  IF item.page > 0 /\ Length(content) > ScrapeMin THEN <<content>> ELSE <<>>

\* faulty variant of ArticleKey: the guid is tried before the link
ArticleKey_GuidFirst(item) ==
  IF ~Falsy(item.guid) THEN item.guid
  ELSE IF ~Falsy(item.link) THEN item.link
  ELSE item.title

\* item.link || item.guid || item.title
ArticleKey(item) ==
  IF ~Falsy(item.link) THEN item.link
  ELSE IF ~Falsy(item.guid) THEN item.guid
  ELSE item.title

\* crypto.createHash('md5').update(key).digest('hex')
ArticleId(item) == [md5 |-> ArticleKey(item)]
\* update(undefined) throws a TypeError; update('') hashes the empty string
IdThrows(item) == ArticleKey(item) = Undefined

\* the content before cleaning: the feed text, or the scraped text when the
\* feed text is short, the item has a link and the scraped text is longer
ChosenContent(item, variant) ==
  LET content == Text("feed", item.raw)
      full == IF Length(content) < ScrapeBelow /\ ~Falsy(item.link)
              THEN ScrapeFullArticle(item, variant) ELSE <<>>
  IN  IF full # <<>> /\ Length(full[1]) > Length(content) THEN full[1] ELSE content

\* faulty variant of IsAcceptable: nothing is too short
IsAcceptable_Always(t) == TRUE

\* the guard  if (content.length < 100) return null
IsAcceptable(t) == ~(Length(t) < MinContentLength)

\* faulty variant of BoundContent: the marker is not appended
BoundContent_NoMarker(t, variant) ==
  IF variant = "new" /\ Length(t) > MaxContentLength
  THEN [t EXCEPT !.len = MaxContentLength]
  ELSE t

\* the clamp of the newer class; the older class has none
BoundContent(t, variant) ==
  IF variant = "new" /\ Length(t) > MaxContentLength
  THEN Truncate(t, MaxContentLength)
  ELSE t

\* cleanText(item.title || 'Untitled')
CleanTitle(title) == IF Falsy(title) THEN "Untitled" ELSE title
\* article.title.toLowerCase().replace(/[^\w\s]/g, '')
TitleKey(title) ==
  IF title = "T1!" THEN "t1"
  ELSE IF title = "Untitled" THEN "untitled"
  ELSE title

\* url: item.link || ''
ArticleUrl(item) == IF Falsy(item.link) THEN "" ELSE item.link

\* processRSSItem(item, source): <<article>>, or <<>> for null
ProcessRSSItem(item, source, variant) ==
  IF IdThrows(item) THEN <<>>
  ELSE LET content == CleanText(ChosenContent(item, variant), item.junk)
       IN  IF ~IsAcceptable(content) THEN <<>>
           ELSE <<[id |-> ArticleId(item), title |-> CleanTitle(item.title),
                   content |-> BoundContent(content, variant),
                   url |-> ArticleUrl(item), source |-> source]>>

ItemOutcome(item, variant) ==
  IF IdThrows(item) THEN "threw"
  ELSE IF ProcessRSSItem(item, 0, variant) = <<>> THEN "discarded"
  ELSE "accepted"

\* faulty variant of IsDuplicate: the URL is not looked at
IsDuplicate_TitleOnly(a, urls, titles) == TitleKey(a.title) \in titles

\* seenUrls.has(urlKey) || seenTitles.has(titleKey)
IsDuplicate(a, urls, titles) == a.url \in urls \/ TitleKey(a.title) \in titles

RECURSIVE Deduplicate(_, _, _)
\* articles.filter(...) of ingestWithDeduplication, with the two sets it
\* updates while filtering
Deduplicate(arts, urls, titles) ==
  IF arts = <<>> THEN [kept |-> <<>>, urls |-> urls, titles |-> titles]
  ELSE LET a == Head(arts)
           drop == IsDuplicate(a, urls, titles)
           rest == IF drop THEN Deduplicate(Tail(arts), urls, titles)
                   ELSE Deduplicate(Tail(arts), urls \cup {a.url},
                                    titles \cup {TitleKey(a.title)})
       IN  [rest EXCEPT !.kept = IF drop THEN @ ELSE <<a>> \o @]

\* faulty variant of Batch: a batch runs one document into the next
Batch_Overlapping(docs, i) == SubSeq(docs, i + 1, Min(i + BatchSize + 1, Len(docs)))

\* documents.slice(i, i + batchSize)
Batch(docs, i) == SubSeq(docs, i + 1, Min(i + BatchSize, Len(docs)))

\* faulty variant of BatchPoints: a failed embedding ends the loop over
\* the batch
BatchPoints_StopAtFailure(batch, failed) ==
  LET firstBad == IF failed \cap DOMAIN batch = {} THEN Len(batch) + 1
                  ELSE CHOOSE i \in failed \cap DOMAIN batch :
                         \A j \in failed \cap DOMAIN batch : i <= j
  IN  [i \in 1..(firstBad - 1) |-> [id |-> batch[i].id, content |-> batch[i].content]]

\* the points pushed for a batch: the documents whose embedding succeeded
BatchPoints(batch, failed) ==
  LET tagged == [i \in DOMAIN batch |-> [i |-> i, doc |-> batch[i]]]
      ok == SelectSeq(tagged, LAMBDA x : x.i \notin failed)
  IN  [i \in DOMAIN ok |-> [id |-> ok[i].doc.id, content |-> ok[i].doc.content]]

IdsOf(pts) == [i \in DOMAIN pts |-> pts[i].id]
Range(s) == {s[i] : i \in DOMAIN s}

\* faulty variant of Upsert: points are added, never replaced
Upsert_Accumulate(coll, pts) == coll \cup Range(pts)

\* qdrantClient.upsert(collection, {points}): a point replaces the stored
\* point of the same id; of two points of a call with one id the later stays
Upsert(coll, pts) ==
  {p \in coll : \A i \in DOMAIN pts : pts[i].id # p.id}
    \cup {pts[i] : i \in {j \in DOMAIN pts :
                            \A k \in DOMAIN pts : k > j => pts[k].id # pts[j].id}}

\* the sources a run iterates over
RunSources(e) == IF e.kind = "single" THEN <<e.source>> ELSE SourceOrder
CurrentSource(n) == RunSources(entry[n])[srcIdx[n]]

chatVars == <<isQdrantAvailable, cache, sessions, chat_history, now, pc, req,
              locals, delivered, calls, ghosts, typingEvents, socketVars>>

\* the state of the chat side while ingestion is studied: no request yet
NoChat ==
  /\ isQdrantAvailable = TRUE
  /\ cache = {}
  /\ sessions = {}
  /\ chat_history = [s \in Sessions |-> <<>>]
  /\ now = 0
  /\ envEvents = 0
  /\ pc = [r \in Reqs |-> "idle"]
  /\ req = [r \in Reqs |-> NoReq]
  /\ chatHistory = [r \in Reqs |-> <<>>]
  /\ queryHash = [r \in Reqs |-> <<>>]
  /\ cachedResult = [r \in Reqs |-> <<>>]
  /\ relevantDocs = [r \in Reqs |-> <<>>]
  /\ response = [r \in Reqs |-> <<>>]
  /\ delivered = [r \in Reqs |-> NoDelivery]
  /\ calls = [r \in Reqs |-> <<>>]
  /\ ragResult = [r \in Reqs |-> <<>>]
  /\ degradedAt = [r \in Reqs |-> FALSE]
  /\ writeTime = [r \in Reqs |-> -1]
  /\ priorWriters = [r \in Reqs |-> {}]
  /\ lookupTime = [r \in Reqs |-> -1]
  /\ genContexts = [r \in Reqs |-> <<>>]
  /\ SocketIdle

\* an empty collection, feeds of at most maxLen items, no run started
IngestStart(maxLen) ==
  /\ NoChat
  /\ points = {}
  /\ serviceVariant \in Variants
  /\ feeds \in [Sources -> FeedsUpTo(maxLen)]
  /\ IngestIdle

\* faulty variant of Stats: the collected count is reported as stored
Stats_StoredIsCollected(collected, stored) == [collected |-> collected, stored |-> collected]

\* the statistics object an ingest method returns
Stats(collected, stored) == [collected |-> collected, stored |-> stored]

\* POST /api/admin/ingest (ingestAllSources, or ingestSingleSource when the
\* body names a source) or a call of ingestWithDeduplication; src is a
\* position of rssSources, or one past the list for an unknown name
StartRun(n, kind, src) ==
  /\ ipc[n] = "idle"
  /\ \A m \in Runs : m < n => ipc[m] # "idle"
  /\ kind \in EntryKinds(serviceVariant)
  /\ IF kind = "single" THEN src \in 1..(Len(SourceOrder) + 1) ELSE src = 0
  /\ entry' = [entry EXCEPT ![n] = [kind |-> kind, source |-> src]]
  /\ IF kind = "single" /\ src \notin Sources
     THEN /\ ipc' = [ipc EXCEPT ![n] = "failed"]
          /\ UNCHANGED srcIdx
     ELSE /\ ipc' = [ipc EXCEPT ![n] = "fetch"]
          /\ srcIdx' = [srcIdx EXCEPT ![n] = 1]
  /\ UNCHANGED <<chatVars, envEvents, points, serviceVariant, feeds, pointPayload,
                 items, articles, allArticles, seenUrls, seenTitles, batchStart,
                 storedIds, stats, fetched, processed, embedded, embedFailed,
                 upserted>>

\* faulty variant of AfterFetch: the failure of parseURL is not caught
AfterFetch_Abort(ok) == IF ok THEN "items" ELSE "failed"

\* where ingestFromRSS goes on after parseURL: into the loop over the
\* items, which are none after a failure (catch, return [])
AfterFetch(ok) == "items"

\* const feed = await this.rssParser.parseURL(source.url); a failure is
\* caught by ingestFromRSS, which then returns []
FetchFeed(n, ok) ==
  /\ ipc[n] = "fetch"
  /\ Outcome(ok)
  /\ fetched' = [fetched EXCEPT ![n] = Append(@, [src |-> CurrentSource(n), ok |-> ok])]
  /\ items' = [items EXCEPT ![n] =
       IF ok THEN SubSeq(feeds[CurrentSource(n)], 1,
                         Min(ItemLimit(serviceVariant), Len(feeds[CurrentSource(n)])))
       ELSE <<>>]
  /\ articles' = [articles EXCEPT ![n] = <<>>]
  /\ ipc' = [ipc EXCEPT ![n] = AfterFetch(ok)]
  /\ UNCHANGED <<chatVars, points, serviceVariant, feeds, pointPayload, entry,
                 srcIdx, allArticles, seenUrls, seenTitles, batchStart,
                 storedIds, stats, processed, embedded, embedFailed,
                 upserted>>

\* one turn of the loop over items: processRSSItem, and the push of the
\* article when it is not null
ProcessItem(n) ==
  /\ ipc[n] = "items"
  /\ items[n] # <<>>
  /\ articles' = [articles EXCEPT ![n] =
       @ \o ProcessRSSItem(Head(items[n]), CurrentSource(n), serviceVariant)]
  /\ processed' = [processed EXCEPT ![n] =
       Append(@, [src |-> CurrentSource(n), item |-> Head(items[n]),
                  id |-> IF IdThrows(Head(items[n])) THEN <<>>
                         ELSE <<ArticleId(Head(items[n]))>>,
                  outcome |-> ItemOutcome(Head(items[n]), serviceVariant)])]
  /\ items' = [items EXCEPT ![n] = Tail(@)]
  /\ UNCHANGED <<chatVars, envEvents, points, serviceVariant, feeds, pointPayload,
                 ipc, entry, srcIdx, allArticles, seenUrls, seenTitles,
                 batchStart, storedIds, stats, fetched, embedded, embedFailed,
                 upserted>>

\* ingestFromRSS returns its articles: ingestSingleSource stores them,
\* the two loops over rssSources collect them and start the delay
SourceDone(n) ==
  /\ ipc[n] = "items"
  /\ items[n] = <<>>
  /\ IF entry[n].kind = "single"
     THEN /\ allArticles' = [allArticles EXCEPT ![n] = articles[n]]
          /\ IF Len(articles[n]) > 0
             THEN /\ ipc' = [ipc EXCEPT ![n] = "store"]
                  /\ UNCHANGED stats
             ELSE /\ ipc' = [ipc EXCEPT ![n] = "done"]
                  /\ stats' = [stats EXCEPT ![n] = <<Stats(0, 0)>>]
          /\ UNCHANGED <<seenUrls, seenTitles>>
     ELSE /\ ipc' = [ipc EXCEPT ![n] = "delay"]
          /\ UNCHANGED stats
          /\ IF entry[n].kind = "dedup"
             THEN LET d == Deduplicate(articles[n], seenUrls[n], seenTitles[n])
                  IN  /\ allArticles' = [allArticles EXCEPT ![n] = @ \o d.kept]
                      /\ seenUrls' = [seenUrls EXCEPT ![n] = d.urls]
                      /\ seenTitles' = [seenTitles EXCEPT ![n] = d.titles]
             ELSE /\ allArticles' = [allArticles EXCEPT ![n] = @ \o articles[n]]
                  /\ UNCHANGED <<seenUrls, seenTitles>>
  /\ UNCHANGED <<chatVars, envEvents, points, serviceVariant, feeds, pointPayload,
                 entry, srcIdx, items, articles, batchStart, storedIds,
                 fetched, processed, embedded, embedFailed,
                 upserted>>

\* the timer of the delay between sources fires: the next source, or the
\* end of the loop and the call of storeBatchDocuments
DelayElapsed(n) ==
  /\ ipc[n] = "delay"
  /\ IF srcIdx[n] < Len(RunSources(entry[n]))
     THEN /\ srcIdx' = [srcIdx EXCEPT ![n] = @ + 1]
          /\ ipc' = [ipc EXCEPT ![n] = "fetch"]
          /\ UNCHANGED stats
     ELSE /\ UNCHANGED srcIdx
          /\ IF Len(allArticles[n]) > 0
             THEN /\ ipc' = [ipc EXCEPT ![n] = "store"]
                  /\ UNCHANGED stats
             ELSE /\ ipc' = [ipc EXCEPT ![n] = "done"]
                  /\ stats' = [stats EXCEPT ![n] = <<Stats(0, 0)>>]
  /\ UNCHANGED <<chatVars, envEvents, points, serviceVariant, feeds, pointPayload,
                 entry, items, articles, allArticles, seenUrls, seenTitles,
                 batchStart, storedIds, fetched, processed, embedded, embedFailed,
                 upserted>>

\* faulty variant of AfterUpsert: a failed upsert is swallowed and the loop
\* over the batches goes on
AfterUpsert_Continue(upsertOk) == "storeDelay"

\* where storeBatchDocuments goes on after the upsert of a batch: to the
\* delay before the next batch, or out through catch { throw error }
AfterUpsert(upsertOk) == IF upsertOk THEN "storeDelay" ELSE "failed"

\* one batch of storeBatchDocuments: an embedding per document (those of
\* failed throw and are skipped), then one upsert of the points when there
\* is any; a failing upsert is rethrown up to the caller of the run
StoreBatch(n, failed, upsertOk) ==
  /\ ipc[n] = "store"
  /\ LET batch == Batch(allArticles[n], batchStart[n])
         pts == BatchPoints(batch, failed)
     IN  /\ failed \subseteq DOMAIN batch
         /\ pts = <<>> => upsertOk
         /\ Env(Cardinality(failed) + (IF upsertOk THEN 0 ELSE 1))
         /\ embedded' = [embedded EXCEPT ![n] = @ \o batch]
         /\ embedFailed' = [embedFailed EXCEPT ![n] =
              @ \cup {batchStart[n] + i : i \in failed}]
         /\ IF pts # <<>> /\ upsertOk
            THEN /\ pointPayload' = Upsert(pointPayload, pts)
                 /\ points' = points \cup Range(IdsOf(pts))
                 /\ storedIds' = [storedIds EXCEPT ![n] = @ \o IdsOf(pts)]
                 /\ upserted' = [upserted EXCEPT ![n] = Append(@, IdsOf(pts))]
            ELSE UNCHANGED <<pointPayload, points, storedIds, upserted>>
         /\ ipc' = [ipc EXCEPT ![n] = AfterUpsert(upsertOk)]
  /\ UNCHANGED <<chatVars, serviceVariant, feeds, entry, srcIdx, items, articles,
                 allArticles, seenUrls, seenTitles, batchStart, stats,
                 fetched, processed>>

\* the timer of the delay after a batch fires: the next batch, or the
\* return of the stored ids and of the statistics of the run
BatchDelayElapsed(n) ==
  /\ ipc[n] = "storeDelay"
  /\ batchStart' = [batchStart EXCEPT ![n] = @ + BatchSize]
  /\ IF batchStart'[n] < Len(allArticles[n])
     THEN /\ ipc' = [ipc EXCEPT ![n] = "store"]
          /\ UNCHANGED stats
     ELSE /\ ipc' = [ipc EXCEPT ![n] = "done"]
          /\ stats' = [stats EXCEPT ![n] =
               <<Stats(Len(allArticles[n]), Len(storedIds[n]))>>]
  /\ UNCHANGED <<chatVars, envEvents, points, serviceVariant, feeds, pointPayload,
                 entry, srcIdx, items, articles, allArticles, seenUrls,
                 seenTitles, storedIds, fetched, processed, embedded, embedFailed,
                 upserted>>

\* the documents of the current batch whose embedding can fail
EmbedFailures(n, B) ==
  IF FALSE \in B THEN SUBSET DOMAIN Batch(allArticles[n], batchStart[n]) ELSE {{}}

\* the steps of the runs in R, the calls having their outcomes in B
IngestStep(R, B) ==
  \/ \E n \in R, kind \in {"all", "dedup", "single"}, src \in 0..(Len(SourceOrder) + 1) :
        StartRun(n, kind, src)
  \/ \E n \in R, ok \in B : FetchFeed(n, ok)
  \/ \E n \in R : ProcessItem(n)
  \/ \E n \in R : SourceDone(n)
  \/ \E n \in R : DelayElapsed(n)
  \/ \E n \in R, upsertOk \in B :
        \E failed \in EmbedFailures(n, B) : StoreBatch(n, failed, upsertOk)
  \/ \E n \in R : BatchDelayElapsed(n)

\* one run of an ingest method
IngestInit == IngestStart(MaxFeedLen)
IngestNext == IngestStep({1}, BOOLEAN)
IngestSpec == IngestInit /\ [][IngestNext]_vars

\* two runs over the same feeds, the second possibly started while the first
\* is in progress, every call succeeding
ReingestInit == IngestStart(MaxFeedLenTwoRuns)
ReingestNext == IngestStep(Runs, {TRUE})
ReingestSpec == ReingestInit /\ [][ReingestNext]_vars

\* C13: processing the same feed item always yields the same id, the
\* collection holds one point per id, and after a run over unchanged feeds
\* has completed, a second run of the same method leaves the collection with
\* the set of point ids the first run produced.
C13_ReingestionIdempotent ==
  /\ \A n1, n2 \in Runs : \A i \in DOMAIN processed[n1], j \in DOMAIN processed[n2] :
       processed[n1][i].item = processed[n2][j].item =>
         processed[n1][i].id = processed[n2][j].id
  /\ \A p, q \in pointPayload : p.id = q.id => p = q
  /\ points = {p.id : p \in pointPayload}
  /\ \A n1, n2 \in Runs :
       (n1 # n2 /\ ipc[n1] = "done" /\ ipc[n2] = "done" /\ entry[n1] = entry[n2]) =>
         /\ Range(storedIds[n1]) = Range(storedIds[n2])
         /\ points = Range(storedIds[n1])
  /\ (ipc[1] = "done" /\ ipc[2] = "idle") => points = Range(storedIds[1])

C13_Witness ==
  /\ ipc[1] = "done" /\ ipc[2] = "done"
  /\ entry[1].kind = "all" /\ entry[2].kind = "all"
  /\ Len(storedIds[1]) = 2 /\ Len(storedIds[2]) = 2
  /\ Cardinality(points) = 2

\* C14 as stated: in a run of any ingest method, the admin endpoint's
\* included, no two articles accepted for storage share a normalized title
\* or a URL.
C14_NoDuplicateAccepted ==
  \A n \in Runs : \A i, j \in DOMAIN allArticles[n] :
    i # j => /\ allArticles[n][i].url # allArticles[n][j].url
             /\ TitleKey(allArticles[n][i].title) # TitleKey(allArticles[n][j].title)

\* the content processRSSItem has after the secondary fetch and cleanText
FinalContent(item) == CleanText(ChosenContent(item, serviceVariant), item.junk)
\* the item of a processed-log entry was too short
TooShort(e) == e.outcome # "threw" /\ Length(FinalContent(e.item)) < MinContentLength

\* C15: an item whose content after the secondary fetch and cleaning is
\* shorter than 100 characters yields no article: nothing with its id and
\* source is collected, sent to the embedding provider or upserted, and no
\* stored or collected content is shorter than 100 characters.
C15_ShortContentDiscarded ==
  \A n \in Runs :
    /\ \A i \in DOMAIN processed[n] :
         TooShort(processed[n][i]) =>
           /\ processed[n][i].outcome = "discarded"
           /\ \A a \in Range(articles[n]) \cup Range(allArticles[n]) \cup Range(embedded[n]) :
                ~(a.id = processed[n][i].id[1] /\ a.source = processed[n][i].src
                  /\ a.url = ArticleUrl(processed[n][i].item)
                  /\ a.title = CleanTitle(processed[n][i].item.title))
           /\ (\A j \in DOMAIN processed[n] :
                 processed[n][j].id = processed[n][i].id => TooShort(processed[n][j]))
                => /\ processed[n][i].id[1] \notin Range(storedIds[n])
                   /\ processed[n][i].id[1] \notin points
    /\ \A a \in Range(articles[n]) \cup Range(allArticles[n]) \cup Range(embedded[n]) :
         Length(a.content) >= MinContentLength
    /\ \A p \in pointPayload : Length(p.content) >= MinContentLength

C15_Witness ==
  \E n \in Runs : \E i \in DOMAIN processed[n] :
    /\ TooShort(processed[n][i])
    /\ ~Falsy(processed[n][i].item.link)
    /\ ipc[n] = "done"
    /\ stats[n][1].stored >= 1

\* the articles a run holds or has sent to the embedding provider
HeldArticles(n) == Range(articles[n]) \cup Range(allArticles[n]) \cup Range(embedded[n])
\* article a was made from the item of the processed-log entry e
MadeFrom(a, e) ==
  /\ e.outcome = "accepted"
  /\ a.id = e.id[1]
  /\ a.source = e.src
  /\ a.title = CleanTitle(e.item.title)

Outcomes(n, o) == {i \in DOMAIN processed[n] : processed[n][i].outcome = o}
RECURSIVE TotalLen(_)
TotalLen(ss) == IF ss = <<>> THEN 0 ELSE Len(Head(ss)) + TotalLen(Tail(ss))

FetchedSources(n) == [i \in DOMAIN fetched[n] |-> fetched[n][i].src]
\* the items of source src that run n is given after a fetch with outcome ok
GivenItems(src, ok) ==
  IF ok THEN SubSeq(feeds[src], 1, Min(ItemLimit(serviceVariant), Len(feeds[src])))
  ELSE <<>>
\* the entries of the processed log of run n for source src
ProcessedOf(n, src) == SelectSeq(processed[n], LAMBDA e : e.src = src)

\* C19: a run that has left the loop over the sources has fetched every
\* source of its list, in order, whatever fetch failed; a source whose fetch
\* failed contributes no article; and every item of a fetched feed has been
\* processed, whatever item was discarded or threw.  A fetch failure or an
\* item failure never makes the run fail.
C19_FailureIsolation ==
  \A n \in Runs :
    /\ ipc[n] \in {"store", "storeDelay", "done"} =>
         /\ FetchedSources(n) = RunSources(entry[n])
         /\ \A i \in DOMAIN fetched[n] :
              /\ [k \in DOMAIN ProcessedOf(n, fetched[n][i].src) |->
                    ProcessedOf(n, fetched[n][i].src)[k].item]
                   = GivenItems(fetched[n][i].src, fetched[n][i].ok)
              /\ ~fetched[n][i].ok =>
                   \A a \in Range(allArticles[n]) : a.source # fetched[n][i].src
         /\ entry[n].kind # "dedup" =>
              Len(allArticles[n]) = Cardinality(Outcomes(n, "accepted"))
    /\ ipc[n] = "failed" =>
         \/ entry[n].kind = "single" /\ entry[n].source \notin Sources
         \/ Len(embedded[n]) > 0

C19_Witness ==
  \E n \in Runs :
    /\ entry[n].kind = "all"
    /\ ipc[n] = "done"
    /\ fetched[n] = <<[src |-> 1, ok |-> FALSE], [src |-> 2, ok |-> TRUE]>>
    /\ Outcomes(n, "threw") # {}
    /\ stats[n][1].stored = 1

\* run n is fetching the feed of a source or processing its items
AtSource(n) == ipc[n] \in {"fetch", "items"}

\* C20 as stated: at most one source feed is being fetched or processed at
\* any time, also when ingestion is triggered again through the admin
\* endpoint while a run is in progress.
C20_OneSourceAtATime ==
  Cardinality({n \in Runs : AtSource(n)}) <= 1

(* ---------------------------------------------------------------------- *)
(* Termination of a query                                                 *)
(* ---------------------------------------------------------------------- *)
\* a handler of a request of R resumes after one of its awaits
HandlerAwait(R) ==
  \/ \E r \in R, ok \in BOOLEAN : GetChatHistory(r, ok)
  \/ \E r \in R, ok \in BOOLEAN : AddUserMessage(r, ok)
  \/ \E r \in R, ok \in BOOLEAN : CacheLookup(r, ok)
  \/ \E r \in R, embedOk \in BOOLEAN, searchOk \in BOOLEAN, genOk \in BOOLEAN,
        text \in GenTexts : ProcessQuery(r, embedOk, searchOk, genOk, text)
  \/ \E r \in R, ok \in BOOLEAN : CacheStore(r, ok)
  \/ \E r \in R, ok \in BOOLEAN : AddAssistantMessage(r, ok)

\* the steps of the handlers of the requests in R
HandlerStep(R) ==
  \/ \E r \in R, t \in Transports, s \in Sessions, m \in Messages :
        \E joined \in {"none", s} :
           Receive(r, t, s, m, joined) /\ UNCHANGED reqSocket
  \/ HandlerAwait(R)

\* processQuery returns or throws: the two axios.post calls carry
\* timeout: 30000, so the embedding and the generation call settle
ProcessQueryReturns(r) ==
  \E embedOk \in BOOLEAN, searchOk \in BOOLEAN, genOk \in BOOLEAN, text \in GenTexts :
    ProcessQuery(r, embedOk, searchOk, genOk, text)

\* The handlers while the server stays up.  The event loop runs every
\* continuation whose promise has settled.  A promise of a call that carries
\* a timeout settles; the Redis commands carry none and the client is
\* created with a reconnectStrategy that retries for ever, so a command
\* issued while Redis is unreachable settles only if Redis comes back:
\* nothing makes the steps that await a Redis command happen.
LiveNext == HandlerStep(Reqs)
LiveSpec ==
  Init /\ [][LiveNext]_vars /\ \A r \in Reqs : WF_vars(ProcessQueryReturns(r))

\* C21 as stated: every query that starts is eventually delivered a
\* response, an answer or a fallback, because every external call of its
\* handler returns or times out.
C21_EveryQueryDelivers ==
  \A r \in Reqs : (pc[r] # "idle") ~> (delivered[r].status # "none")

\* C22: every cache entry expires 30 minutes after the write that stored
\* it; a lookup is served an entry only when it happens less than 30 minutes
\* after that write, and a lookup, hit or miss, leaves every entry and its
\* expiry as they are: only a cache write changes the entry of a key.
C22_EntryExpiresAfterTtl ==
  /\ [](\A e \in cache : \E w \in Reqs :
          /\ writeTime[w] >= 0
          /\ queryHash[w] = e.key
          /\ e.expiresAt = writeTime[w] + 30 * 60)
  /\ [](\A r \in Reqs :
          cachedResult[r] # <<>> =>
            \E w \in Reqs \ {r} :
              /\ writeTime[w] >= 0
              /\ queryHash[w] = queryHash[r]
              /\ writeTime[w] <= lookupTime[r]
              /\ lookupTime[r] < writeTime[w] + 30 * 60
              /\ cachedResult[r][1] = response[w][1])
  /\ [][/\ (\E r \in Reqs : pc[r] = "cacheGet" /\ pc'[r] # "cacheGet" /\ pc'[r] # "aborted")
          => cache' = cache
        /\ cache' # cache =>
             \E w \in Reqs : /\ pc[w] = "cacheSet"
                             /\ writeTime'[w] = now
                             /\ cache' \ cache = {[key |-> queryHash[w],
                                                   value |-> JsonStringify(response[w][1]),
                                                   expiresAt |-> now + 30 * 60]}]_vars

C22_Witness ==
  \E r, w \in Reqs :
    /\ r # w
    /\ writeTime[w] >= 0
    /\ queryHash[w] = queryHash[r]
    /\ lookupTime[r] >= writeTime[w] + CacheTTL
    /\ Has(r, "cacheGet")
    /\ cachedResult[r] = <<>>
    /\ pc[r] = "process"
    /\ \E e \in cache : e.key = queryHash[r] /\ e.expiresAt <= lookupTime[r]

\* the calls of request r that are steps of the retrieval path or the cache
\* write, in the order they were made
PipelineSteps(r) ==
  SelectSeq(calls[r], LAMBDA c : c \in RetrievalCalls \cup {"cacheSet", "cacheSetFail"})
\* position of a step in the order embed, search, generate, cache write
StepRank(c) ==
  IF c \in {"embed", "embedFail"} THEN 1
  ELSE IF c \in {"search", "searchFail"} THEN 2
  ELSE IF c \in GenerationCalls THEN 3
  ELSE 4

\* C23: for a request that missed the cache while the store is available,
\* the embedding, the search, the generation and the cache write are each
\* made at most once and in that order, all before the reply; the
\* generation provider is called exactly once by processQuery; the cache
\* write is made only after generation has returned a result; and when no
\* call fails the calls are exactly lookup, embed, search, generate, cache
\* write, followed by the reply.
C23_PipelineOrder ==
  \A r \in Reqs :
    (~degradedAt[r] /\ lookupTime[r] >= 0 /\ cachedResult[r] = <<>>) =>
      /\ \A i, j \in DOMAIN PipelineSteps(r) :
           i < j => StepRank(PipelineSteps(r)[i]) < StepRank(PipelineSteps(r)[j])
      /\ pc[r] = "process" => PipelineSteps(r) = <<>>
      /\ AfterProcess(r) => Count(r, GenerationCalls) = 1
      /\ (Has(r, "cacheSet") \/ Has(r, "cacheSetFail")) =>
           /\ Has(r, "generate")
           /\ ragResult[r] # <<>>
      /\ pc[r] = "cacheSet" => (delivered[r].status = "none" /\ Has(r, "generate"))
      /\ delivered[r].status = "ok" =>
           \/ Has(r, "generate") /\ (Has(r, "cacheSet") \/ Has(r, "cacheSetFail"))
           \/ req[r].transport = "socket" /\ Has(r, "generateFail")
      /\ (pc[r] = "done" /\ Count(r, FailedCalls) = 0) =>
           /\ calls[r] = <<"cacheGet", "embed", "search", "generate", "cacheSet">>
           /\ delivered[r].status = "ok"

C23_Witness ==
  \E r \in Reqs :
    /\ ~degradedAt[r]
    /\ cachedResult[r] = <<>>
    /\ pc[r] = "done"
    /\ calls[r] = <<"cacheGet", "embed", "search", "generate", "cacheSet">>
    /\ delivered[r].status = "ok"
    /\ Len(delivered[r].sources) = SearchLimit
    /\ writeTime[r] >= 0

(* ---------------------------------------------------------------------- *)
(* RAGService.storeBatchDocuments as a function of its documents          *)
(* ---------------------------------------------------------------------- *)
\* longest document list passed to storeBatchDocuments here
MaxDocs == 21

\* the document at position i of a list, with the id of key k
Doc(i, k) ==
  [id |-> [md5 |-> "d" \o ToString(k)], title |-> "title " \o ToString(i),
   content |-> CleanText(Text("feed", MinContentLength + i), 0),
   url |-> "d" \o ToString(k), source |-> 1]
\* the lists of n documents, the ids all different or the last document
\* carrying the id of the first (two items that share their link)
DocLists ==
  {[i \in 1..n |-> Doc(i, IF dup /\ i = n THEN 1 ELSE i)] :
     n \in 1..MaxDocs, dup \in BOOLEAN}

\* ingestAllSources has collected a list of articles and calls
\* storeBatchDocuments(allArticles)
StoreInit ==
  /\ NoChat
  /\ points = {}
  /\ serviceVariant = "new"
  /\ feeds = [src \in Sources |-> <<>>]
  /\ pointPayload = {}
  /\ ipc = [n \in Runs |-> IF n = 1 THEN "store" ELSE "idle"]
  /\ entry = [n \in Runs |-> IF n = 1 THEN [kind |-> "all", source |-> 0] ELSE NoEntry]
  /\ srcIdx = [n \in Runs |-> IF n = 1 THEN Len(SourceOrder) ELSE 0]
  /\ items = [n \in Runs |-> <<>>]
  /\ articles = [n \in Runs |-> <<>>]
  /\ \E docs \in DocLists : allArticles = [n \in Runs |-> IF n = 1 THEN docs ELSE <<>>]
  /\ seenUrls = [n \in Runs |-> {}]
  /\ seenTitles = [n \in Runs |-> {}]
  /\ batchStart = [n \in Runs |-> 0]
  /\ storedIds = [n \in Runs |-> <<>>]
  /\ stats = [n \in Runs |-> <<>>]
  /\ fetched = [n \in Runs |-> <<>>]
  /\ processed = [n \in Runs |-> <<>>]
  /\ embedded = [n \in Runs |-> <<>>]
  /\ embedFailed = [n \in Runs |-> {}]
  /\ upserted = [n \in Runs |-> <<>>]

StoreNext ==
  \/ \E upsertOk \in BOOLEAN :
        \E failed \in EmbedFailures(1, BOOLEAN) : StoreBatch(1, failed, upsertOk)
  \/ BatchDelayElapsed(1)

StoreSpec == StoreInit /\ [][StoreNext]_vars

\* number of batches of run n whose upsert step is over
BatchesDone(n) ==
  IF ipc[n] = "storeDelay" THEN batchStart[n] \div BatchSize + 1
  ELSE batchStart[n] \div BatchSize
\* the positions of the documents of batch g (1, 2, ...) of run n
BatchPositions(n, g) ==
  {i \in DOMAIN allArticles[n] : (g - 1) * BatchSize < i /\ i <= g * BatchSize}
\* the documents of batch g whose embedding succeeded, as the ids pushed
SucceededIds(n, g) ==
  LET tagged == [i \in DOMAIN allArticles[n] |-> [i |-> i, id |-> allArticles[n][i].id]]
      ok == SelectSeq(tagged, LAMBDA x : x.i \in BatchPositions(n, g)
                                         /\ x.i \notin embedFailed[n])
  IN  [k \in DOMAIN ok |-> ok[k].id]
RECURSIVE IdsOfBatches(_, _)
\* the ids pushed for the batches 1..g, batch after batch
IdsOfBatches(n, g) ==
  IF g = 0 THEN <<>> ELSE IdsOfBatches(n, g - 1) \o SucceededIds(n, g)

RECURSIVE CallsOfBatches(_, _)
\* the upsert calls of the batches 1..g of run n: one per batch with a
\* document whose embedding succeeded, carrying the ids of those documents
CallsOfBatches(n, g) ==
  IF g = 0 THEN <<>>
  ELSE CallsOfBatches(n, g - 1)
         \o (IF SucceededIds(n, g) = <<>> THEN <<>> ELSE <<SucceededIds(n, g)>>)

\* C25: the documents are embedded in input order, batch after batch, a
\* batch being the next 10 documents (fewer at the end); the upsert calls
\* are, in the order of the batches, one call per batch that has a document
\* whose embedding succeeded, carrying exactly those documents of that batch
\* in input order, so a batch whose embeddings all failed makes no call and
\* every successfully embedded document is in exactly one call; a completed
\* run has processed every batch.
C25_BatchesOfTen ==
  \A n \in Runs :
    /\ embedded[n] = SubSeq(allArticles[n], 1, Len(embedded[n]))
    /\ ipc[n] # "failed" =>
         Len(embedded[n]) = Min(Len(allArticles[n]), BatchesDone(n) * BatchSize)
    /\ ipc[n] = "failed" =>
         Len(embedded[n]) \in {0, Min(Len(allArticles[n]), (BatchesDone(n) + 1) * BatchSize)}
    /\ upserted[n] = CallsOfBatches(n, BatchesDone(n))
    /\ \A k \in DOMAIN upserted[n] :
         Len(upserted[n][k]) >= 1 /\ Len(upserted[n][k]) <= 10
    /\ TotalLen(upserted[n]) =
         Cardinality({i \in DOMAIN allArticles[n] :
                        i <= BatchesDone(n) * BatchSize /\ i \notin embedFailed[n]})
    /\ (ipc[n] = "done" /\ stats[n] # <<>>) =>
         BatchesDone(n) * BatchSize >= Len(allArticles[n])

C25_Witness ==
  \E n \in Runs :
    /\ ipc[n] = "done"
    /\ Len(allArticles[n]) > 2 * BatchSize
    /\ \E g \in 1..3 : BatchPositions(n, g) # {} /\ BatchPositions(n, g) \subseteq embedFailed[n]
    /\ Len(upserted[n]) = 2
    /\ Len(upserted[n][1]) = BatchSize /\ Len(upserted[n][2]) = BatchSize

(* ---------------------------------------------------------------------- *)
(* The keys of a feed item: id, URL and title of its article              *)
(* ---------------------------------------------------------------------- *)
\* longest feed when the keys of the items are studied
MaxKeyFeedLen == 2

\* an item with enough content, known by its three keys
KeyItem(link, guid, title) == Item(link, guid, title, 300, 0, 0)
LinkVals == <<Undefined, "", "l1">>
GuidVals == <<Undefined, "", "g1">>
TitleVals == <<Undefined, "", "t1">>
\* every combination of a missing, an empty and a present link, guid and
\* title, the item without any of them first; then items with a second
\* title, one of them with the guid that is the link of other items
KeyCatalogue ==
  [i \in 1..27 |-> KeyItem(LinkVals[((i - 1) \div 9) + 1],
                           GuidVals[(((i - 1) \div 3) % 3) + 1],
                           TitleVals[((i - 1) % 3) + 1])]
    \o << KeyItem(Undefined, "l1", "t2"),
          KeyItem(Undefined, Undefined, "t2"),
          KeyItem("", "g2", "t2") >>

RECURSIVE SubCatalogue(_, _)
\* the items of catalogue cat at the positions S, in catalogue order
SubCatalogue(cat, S) ==
  IF S = {} THEN <<>>
  ELSE LET i == CHOOSE j \in S : \A k \in S : j <= k
       IN  <<cat[i]>> \o SubCatalogue(cat, S \ {i})
RECURSIVE PositionSets(_, _)
\* the sets of at most k positions of catalogue cat
PositionSets(cat, k) ==
  IF k = 0 THEN {{}}
  ELSE PositionSets(cat, k - 1)
         \cup {S \cup {i} : S \in PositionSets(cat, k - 1), i \in DOMAIN cat}
\* the feeds of at most k items
KeyFeeds(k) == {SubCatalogue(KeyCatalogue, S) : S \in PositionSets(KeyCatalogue, k)}

\* the first source serves a feed of such items, the collection is empty
KeyInit ==
  /\ NoChat
  /\ points = {}
  /\ serviceVariant \in Variants
  /\ \E f \in KeyFeeds(MaxKeyFeedLen) :
       feeds = [src \in Sources |-> IF src = 1 THEN f ELSE <<>>]
  /\ IngestIdle

\* one run of an ingest method, every call succeeding
KeyNext == IngestStep({1}, {TRUE})
KeySpec == KeyInit /\ [][KeyNext]_vars

\* the keys of an item that are neither missing nor empty, by position in
\* (link, guid, title)
NonEmptyKeys(item) ==
  {i \in 1..3 : <<item.link, item.guid, item.title>>[i] \notin {Undefined, ""}}
\* the articles of run n made from the item of the processed-log entry e
ArticlesFrom(n, e) ==
  {a \in HeldArticles(n) :
     /\ a.source = e.src
     /\ a.url = ArticleUrl(e.item)
     /\ a.title = CleanTitle(e.item.title)
     /\ e.id # <<>> /\ a.id = e.id[1]}

\* C26 as stated: the id is the hash of the first non-empty key among
\* link, guid, title; an item whose three keys are all empty yields no
\* article, and the other items of its source are still processed.
C26_EmptyKeysDiscarded ==
  \A n \in Runs : \A i \in DOMAIN processed[n] :
    LET e == processed[n][i]
    IN  /\ NonEmptyKeys(e.item) # {} =>
             e.id = <<[md5 |-> <<e.item.link, e.item.guid, e.item.title>>[
                                   CHOOSE k \in NonEmptyKeys(e.item) :
                                     \A j \in NonEmptyKeys(e.item) : k <= j]]>>
        /\ NonEmptyKeys(e.item) = {} =>
             /\ e.outcome # "accepted"
             /\ ArticlesFrom(n, e) = {}

\* C26 amended: the id is the hash of the first non-empty key among link,
\* guid, title.  An item without a non-empty key yields no article only when
\* its title is missing: the hash then throws, which processRSSItem catches.
\* When its title is the empty string the id is the hash of the empty
\* string and the item yields an article (titled 'Untitled', with an empty
\* URL) like any other item.  In both cases the other items of the source
\* are processed.
C26_IdFromFirstNonEmptyKey ==
  \A n \in Runs :
    /\ \A i \in DOMAIN processed[n] :
         LET e == processed[n][i]
         IN  /\ NonEmptyKeys(e.item) # {} =>
                  e.id = <<[md5 |-> <<e.item.link, e.item.guid, e.item.title>>[
                                        CHOOSE k \in NonEmptyKeys(e.item) :
                                          \A j \in NonEmptyKeys(e.item) : k <= j]]>>
             /\ (NonEmptyKeys(e.item) = {} /\ e.item.title = Undefined) =>
                  /\ e.outcome = "threw"
                  /\ e.id = <<>>
                  /\ ArticlesFrom(n, e) = {}
             /\ (NonEmptyKeys(e.item) = {} /\ e.item.title = "") =>
                  /\ e.outcome = "accepted"
                  /\ e.id = <<[md5 |-> ""]>>
                  /\ \A a \in ArticlesFrom(n, e) : a.title = "Untitled" /\ a.url = ""
                  /\ (entry[n].kind # "dedup" \/ (ipc[n] = "items" /\ e.src = CurrentSource(n)))
                       => ArticlesFrom(n, e) # {}
             /\ e.outcome = "threw" <=> (NonEmptyKeys(e.item) = {} /\ e.item.title = Undefined)
    /\ ipc[n] \in {"delay", "store", "storeDelay", "done"} =>
         \A k \in DOMAIN fetched[n] :
           [j \in DOMAIN ProcessedOf(n, fetched[n][k].src) |->
              ProcessedOf(n, fetched[n][k].src)[j].item]
             = GivenItems(fetched[n][k].src, fetched[n][k].ok)

C26_Witness ==
  \E n \in Runs :
    /\ ipc[n] = "done"
    /\ Len(processed[n]) = 2
    /\ processed[n][1].outcome = "threw"
    /\ processed[n][2].outcome = "accepted"
    /\ processed[n][2].item.link = "" /\ processed[n][2].item.guid = "g1"
    /\ stats[n] = <<Stats(1, 1)>>
    /\ points = {[md5 |-> "g1"]}

\* C27: in every result processQuery returns, relevantDocsCount is the
\* number of entries of sources, and sources lists the candidates the
\* search returned, one entry per candidate in the order of the search
\* (best score first); the advisory and the no-candidates result have no
\* source and a count of 0.
C27_CountMatchesSources ==
  \A r \in Reqs :
    ragResult[r] # <<>> =>
      LET res == ragResult[r][1]
      IN  /\ res.relevantDocsCount = Len(res.sources)
          /\ Len(res.sources) = Len(relevantDocs[r])
          /\ \A i \in DOMAIN res.sources : res.sources[i] = relevantDocs[r][i].id
          /\ \A i, j \in DOMAIN relevantDocs[r] :
               i < j => relevantDocs[r][i].score >= relevantDocs[r][j].score
          /\ Has(r, "search") =>
               relevantDocs[r] = QdrantSearch(req[r].message, points, 5, ScoreThreshold)
          /\ ~Has(r, "search") => res.sources = <<>>

C27_Witness ==
  \E r \in Reqs :
    /\ ragResult[r] # <<>>
    /\ ragResult[r][1].relevantDocsCount = SearchLimit
    /\ Len(ragResult[r][1].sources) = SearchLimit
    /\ ragResult[r][1].sources[1] # ragResult[r][1].sources[SearchLimit]
    /\ delivered[r].status = "ok"

\* the ids of the points run n has sent in upsert calls that succeeded
UpsertedIds(n) == UNION {Range(upserted[n][i]) : i \in DOMAIN upserted[n]}

KeptByFilter(n, e) ==
  \E a \in Range(allArticles[n]) :
    /\ a.id = e.id[1]
    /\ a.source = e.src
    /\ a.url = ArticleUrl(e.item)
    /\ a.title = CleanTitle(e.item.title)

\* C29 as stated: once the loop over the sources of ingestWithDeduplication
\* is over, an article that processRSSItem produced is missing from the
\* accepted articles only when an accepted article has its normalized title
\* or its URL, the URL being a real link; so two articles without link and
\* with different titles are both accepted.
C29_DroppedOnlyForTitleOrRealLink ==
  \A n \in Runs :
    (entry[n].kind = "dedup" /\ ipc[n] \in {"store", "storeDelay", "done"}) =>
      \A i \in DOMAIN processed[n] :
        (processed[n][i].outcome = "accepted" /\ ~KeptByFilter(n, processed[n][i])) =>
          \E a \in Range(allArticles[n]) :
            \/ TitleKey(a.title) = TitleKey(CleanTitle(processed[n][i].item.title))
            \/ a.url # "" /\ a.url = ArticleUrl(processed[n][i].item)

\* an upsert call of run n has failed: a call failed that was not an
\* embedding
UpsertFailed(n) == ipc[n] # "idle" /\ envEvents > Cardinality(embedFailed[n])

\* C30: when the upsert of a batch fails, the run ends with the error and
\* returns no statistics; the documents embedded are those of the batches
\* up to the failing one and no document of a later batch; the upsert calls
\* made are those of the earlier batches, whose points are in the store;
\* and nothing of this changes afterwards.
C30_UpsertFailureStopsRun ==
  /\ [](\A n \in Runs :
          UpsertFailed(n) =>
            /\ ipc[n] = "failed"
            /\ stats[n] = <<>>
            /\ batchStart[n] = BatchesDone(n) * BatchSize
            /\ embedded[n] = SubSeq(allArticles[n], 1,
                                    Min(Len(allArticles[n]), batchStart[n] + BatchSize))
            /\ upserted[n] = CallsOfBatches(n, BatchesDone(n))
            /\ storedIds[n] = IdsOfBatches(n, BatchesDone(n))
            /\ Range(storedIds[n]) \subseteq points
            /\ \A id \in Range(storedIds[n]) : \E p \in pointPayload : p.id = id)
  /\ [][\A n \in Runs :
          UpsertFailed(n) =>
            /\ ipc'[n] = "failed"
            /\ embedded'[n] = embedded[n]
            /\ upserted'[n] = upserted[n]
            /\ points' = points
            /\ pointPayload' = pointPayload]_vars

C30_Witness ==
  \E n \in Runs :
    /\ UpsertFailed(n)
    /\ ipc[n] = "failed"
    /\ batchStart[n] = BatchSize
    /\ Len(allArticles[n]) > 2 * BatchSize
    /\ Len(embedded[n]) = 2 * BatchSize
    /\ Len(upserted[n]) = 1
    /\ Cardinality(points) = BatchSize

(* ---------------------------------------------------------------------- *)
(* The replies stored in the chat history                                 *)
(* ---------------------------------------------------------------------- *)
\* the positions of the message of request r with the given role in the
\* stored history of its session
StoredBy(r, role) ==
  {i \in DOMAIN chat_history[req[r].sessionId] :
     chat_history[req[r].sessionId][i].id = MsgId(r, role)}

\* C32 as stated: a request that has completed, on either transport, and
\* has stored its user message has stored exactly one assistant message,
\* also when the RAG pipeline failed (a failure of the storing of the
\* assistant message itself set aside).
C32_UserMessageGetsOneReply ==
  \A r \in Reqs :
    (pc[r] = "done" /\ StoredBy(r, "user") # {} /\ ~Has(r, "addAssistantFail")) =>
      Cardinality(StoredBy(r, "assistant")) = 1

(* ---------------------------------------------------------------------- *)
(* The socket handlers: join_session, message, clear_session              *)
(* ---------------------------------------------------------------------- *)
\* the texts a followed socket sends
SocketMessages == {"", "q1"}

\* socket k has sent an event
HasSent(k) ==
  \/ \E r \in Reqs : reqSocket[r] = k
  \/ \E j \in Joins : joinHandler[j].socket = k
  \/ \E c \in Clears : clearHandler[c].socket = k

\* the sockets are numbered in the order of their first event
MaySend(k) == \A i \in Sockets : i < k => HasSent(i)

\* socket.join(sessionId); socket.sessionId = sessionId
RecordJoin(k, s) ==
  /\ rooms' = [rooms EXCEPT ![k] = @ \cup {s}]
  /\ socketSessionId' = [socketSessionId EXCEPT ![k] = s]

\* a handler is over, having emitted the event e to its socket
Over(h, e) == [h EXCEPT !.pc = "done", !.emitted = e]

\* a join_session event with data.sessionId = s ("none": no sessionId)
\* arrives on socket k; the handler checks the sessionId and calls getSession
JoinSession(j, k, s) ==
  /\ joinHandler[j].pc = "idle"
  /\ \A i \in Joins : i < j => joinHandler[i].pc # "idle"
  /\ MaySend(k)
  /\ joinHandler' = [joinHandler EXCEPT ![j] =
       IF s = "none"
       THEN Over([@ EXCEPT !.socket = k], "error: Session ID is required")
       ELSE [@ EXCEPT !.pc = "getSession", !.socket = k, !.sessionId = s]]
  /\ UNCHANGED <<store, cache, sessions, chat_history, now, envEvents, pc, req,
                 locals, delivered, calls, ghosts, typingEvents, reqSocket,
                 socketSessionId, rooms, clearHandler>>
  /\ UNCHANGED ingestVars

\* let session = await redisService.getSession(sessionId): null when the key
\* is missing and when the command fails; with a session the join is
\* recorded, without one createSession is called
JoinGetSession(j, ok) ==
  /\ joinHandler[j].pc = "getSession"
  /\ Outcome(ok)
  /\ IF ok /\ joinHandler[j].sessionId \in sessions
     THEN /\ RecordJoin(joinHandler[j].socket, joinHandler[j].sessionId)
          /\ joinHandler' = [joinHandler EXCEPT ![j].pc = "getHistory"]
     ELSE /\ joinHandler' = [joinHandler EXCEPT ![j].pc = "createSession"]
          /\ UNCHANGED <<rooms, socketSessionId>>
  /\ UNCHANGED <<store, cache, sessions, chat_history, now, pc, req,
                 locals, delivered, calls, ghosts, typingEvents, reqSocket,
                 clearHandler>>
  /\ UNCHANGED ingestVars

\* session = await redisService.createSession(sessionId, ...): a failure is
\* rethrown and the catch of the handler emits 'error'; otherwise the join
\* is recorded
JoinCreateSession(j, ok) ==
  /\ joinHandler[j].pc = "createSession"
  /\ Outcome(ok)
  /\ IF ok
     THEN /\ sessions' = sessions \cup {joinHandler[j].sessionId}
          /\ RecordJoin(joinHandler[j].socket, joinHandler[j].sessionId)
          /\ joinHandler' = [joinHandler EXCEPT ![j].pc = "getHistory"]
     ELSE /\ joinHandler' = [joinHandler EXCEPT ![j] = Over(@, "error: Failed to join session")]
          /\ UNCHANGED <<sessions, rooms, socketSessionId>>
  /\ UNCHANGED <<store, cache, chat_history, now, pc, req,
                 locals, delivered, calls, ghosts, typingEvents, reqSocket,
                 clearHandler>>
  /\ UNCHANGED ingestVars

\* const chatHistory = await redisService.getChatHistory(sessionId, 20), which
\* gives [] when it fails; socket.emit('session_joined', ...)
JoinGetHistory(j) ==
  /\ joinHandler[j].pc = "getHistory"
  /\ joinHandler' = [joinHandler EXCEPT ![j] = Over(@, "session_joined")]
  /\ UNCHANGED <<store, cache, sessions, chat_history, now, envEvents, pc, req,
                 locals, delivered, calls, ghosts, typingEvents, reqSocket,
                 socketSessionId, rooms, clearHandler>>
  /\ UNCHANGED ingestVars

\* a message event {message: m, sessionId: s} arrives on socket k, the
\* requests before it being over
SocketMessage(r, k, s, m) ==
  /\ MaySend(k)
  /\ \A q \in Reqs : ~InFlight(q)
  /\ Receive(r, "socket", s, m, socketSessionId[k])
  /\ reqSocket' = [reqSocket EXCEPT ![r] = k]

\* a clear_session event with data.sessionId = s arrives on socket k; the
\* handler checks the sessionId against socket.sessionId and calls
\* deleteSession
ClearSession(c, k, s) ==
  /\ clearHandler[c].pc = "idle"
  /\ \A i \in Clears : i < c => clearHandler[i].pc # "idle"
  /\ MaySend(k)
  /\ clearHandler' = [clearHandler EXCEPT ![c] =
       IF NotJoined(socketSessionId[k], s)
       THEN Over([@ EXCEPT !.socket = k, !.sessionId = s], "error: Invalid session")
       ELSE [@ EXCEPT !.pc = "deleteSession", !.socket = k, !.sessionId = s]]
  /\ UNCHANGED <<store, cache, sessions, chat_history, now, envEvents, pc, req,
                 locals, delivered, calls, ghosts, typingEvents, reqSocket,
                 socketSessionId, rooms, joinHandler>>
  /\ UNCHANGED ingestVars

\* const deleted = await redisService.deleteSession(sessionId): del of the
\* session key, then del of the history key, dels of which succeed; a failure
\* is caught and gives false, and then the handler emits nothing
ClearDelete(c, dels) ==
  /\ clearHandler[c].pc = "deleteSession"
  /\ Outcome(dels = 2)
  /\ sessions' = IF dels >= 1 THEN sessions \ {clearHandler[c].sessionId} ELSE sessions
  /\ chat_history' = IF dels = 2
                     THEN [chat_history EXCEPT ![clearHandler[c].sessionId] = <<>>]
                     ELSE chat_history
  /\ clearHandler' = [clearHandler EXCEPT ![c] =
       Over(@, IF dels = 2 THEN "session_cleared" ELSE "none")]
  /\ UNCHANGED <<store, cache, now, pc, req,
                 locals, delivered, calls, ghosts, typingEvents, reqSocket,
                 socketSessionId, rooms, joinHandler>>
  /\ UNCHANGED ingestVars

\* the steps of the 'message' handler of the requests in R, the vector
\* store being available
MessageAwait(R) ==
  \/ \E r \in R, ok \in BOOLEAN : GetChatHistory(r, ok)
  \/ \E r \in R, ok \in BOOLEAN : AddUserMessage(r, ok)
  \/ \E r \in R, ok \in BOOLEAN : CacheLookup(r, ok)
  \/ \E r \in R, genOk \in BOOLEAN :
        ProcessQuery(r, TRUE, TRUE, genOk, IF genOk THEN "g1" ELSE "")
  \/ \E r \in R, ok \in BOOLEAN : CacheStore(r, ok)
  \/ \E r \in R, ok \in BOOLEAN : AddAssistantMessage(r, ok)

\* the message events that are followed while the joins are studied
SocketReqs == {1}

\* the events of the sockets and the steps of their handlers, the server
\* staying up
SocketNext ==
  \/ \E j \in Joins, k \in Sockets, s \in Sessions \cup {"none"} : JoinSession(j, k, s)
  \/ \E j \in Joins, ok \in BOOLEAN : JoinGetSession(j, ok)
  \/ \E j \in Joins, ok \in BOOLEAN : JoinCreateSession(j, ok)
  \/ \E j \in Joins : JoinGetHistory(j)
  \/ \E r \in SocketReqs, k \in Sockets, s \in Sessions, m \in SocketMessages :
        SocketMessage(r, k, s, m)
  \/ \E c \in Clears, k \in Sockets, s \in Sessions \cup {"none"} : ClearSession(c, k, s)
  \/ \E c \in Clears, dels \in 0..2 : ClearDelete(c, dels)
  \/ MessageAwait(SocketReqs)

\* the server is up with the vector store available, no event has arrived
SocketInit == Init /\ isQdrantAvailable

SocketSpec == SocketInit /\ [][SocketNext]_vars

(* ---------------------------------------------------------------------- *)
(* The join guard of the socket handlers                                  *)
(* ---------------------------------------------------------------------- *)
RejectionTexts == {"Message and sessionId are required", "Not joined to this session"}

\* the 'message' handler of request r went past its two checks
Accepted(r) ==
  /\ pc[r] # "idle"
  /\ ~(pc[r] = "done" /\ calls[r] = <<>> /\ delivered[r].content \in RejectionTexts)

\* the join_session handler j has set socket.sessionId
HasJoined(j) ==
  joinHandler[j].pc = "getHistory" \/ joinHandler[j].emitted = "session_joined"

\* a join_session handler of socket k for session s has set socket.sessionId
JoinedBy(k, s) ==
  \E j \in Joins : /\ HasJoined(j)
                   /\ joinHandler[j].socket = k
                   /\ joinHandler[j].sessionId = s

\* the clear_session handler c went past its check
ClearAccepted(c) ==
  \/ clearHandler[c].pc = "deleteSession"
  \/ clearHandler[c].pc = "done" /\ clearHandler[c].emitted # "error: Invalid session"

\* what the handlers of the server keep in Redis, in Qdrant and on the sockets
ServerState == <<points, pointPayload, cache, sessions, chat_history,
                 socketSessionId, rooms>>

C34_MessageAfterJoinIsServed ==
  [][\A r \in Reqs, j \in Joins :
       (/\ pc[r] = "idle" /\ pc'[r] # "idle"
        /\ joinHandler[j].pc # "idle"
        /\ joinHandler[j].socket = reqSocket'[r]
        /\ joinHandler[j].sessionId = req'[r].sessionId) =>
         delivered'[r].content # "Not joined to this session"]_vars

(* ---------------------------------------------------------------------- *)
(* The typing indicator                                                   *)
(* ---------------------------------------------------------------------- *)
\* the handler of request r has emitted assistant_typing {typing: true} to a
\* room and no assistant_typing {typing: false} to that room since
TypingPending(r) ==
  \E i \in DOMAIN typingEvents[r] :
    /\ typingEvents[r][i].typing
    /\ \A j \in DOMAIN typingEvents[r] :
         j > i => (typingEvents[r][j].typing \/ typingEvents[r][j].room # typingEvents[r][i].room)

\* C35 as stated: every assistant_typing {typing: true} event that the
\* 'message' handler emits to a session is eventually followed by an
\* assistant_typing {typing: false} event to the same session.
C35_TypingEventuallyOff ==
  \A r \in Reqs : TypingPending(r) ~> ~TypingPending(r)

(* ---------------------------------------------------------------------- *)
(* The requests of one session, one after another                         *)
(* ---------------------------------------------------------------------- *)
\* the session that is followed, and a history it holds from earlier
\* requests, newest first
TheSession == "s1"
OldHistory ==
  <<ChatMessage(<<0, "assistant">>, "assistant", "g1", <<>>),
    ChatMessage(<<0, "user">>, "user", "q2", <<>>),
    ChatMessage(<<-1, "assistant">>, "assistant", "g1", <<>>)>>

\* the server is up with the vector store available, Redis holds the
\* sessions sess and the histories hist, no event has arrived
StartWith(hist, sess) ==
  /\ isQdrantAvailable = TRUE
  /\ points = Docs
  /\ cache = {}
  /\ chat_history = hist
  /\ sessions = sess
  /\ now = 0
  /\ envEvents = 0
  /\ pc = [r \in Reqs |-> "idle"]
  /\ req = [r \in Reqs |-> NoReq]
  /\ chatHistory = [r \in Reqs |-> <<>>]
  /\ queryHash = [r \in Reqs |-> <<>>]
  /\ cachedResult = [r \in Reqs |-> <<>>]
  /\ relevantDocs = [r \in Reqs |-> <<>>]
  /\ response = [r \in Reqs |-> <<>>]
  /\ delivered = [r \in Reqs |-> NoDelivery]
  /\ calls = [r \in Reqs |-> <<>>]
  /\ ragResult = [r \in Reqs |-> <<>>]
  /\ degradedAt = [r \in Reqs |-> FALSE]
  /\ writeTime = [r \in Reqs |-> -1]
  /\ priorWriters = [r \in Reqs |-> {}]
  /\ lookupTime = [r \in Reqs |-> -1]
  /\ genContexts = [r \in Reqs |-> <<>>]
  /\ SocketIdle
  /\ serviceVariant = "new"
  /\ feeds = [src \in Sources |-> <<>>]
  /\ IngestIdle

\* the histories of the sessions when only the followed session has one
OnlyTheSession(list) == [s \in Sessions |-> IF s = TheSession THEN list ELSE <<>>]

\* the session is new, or it exists with the history of earlier requests
SessionInit ==
  \E old \in {<<>>, OldHistory} :
    StartWith(OnlyTheSession(old), IF old = <<>> THEN {} ELSE {TheSession})

\* a message for the session arrives, over HTTP or on socket 1, the requests
\* before it being over
SessionRequest(r, t, m) ==
  /\ \A q \in Reqs : ~InFlight(q)
  /\ IF t = "socket"
     THEN SocketMessage(r, 1, TheSession, m)
     ELSE Receive(r, t, TheSession, m, "none") /\ UNCHANGED reqSocket

\* socket 1 joins the session, the session receives requests one after
\* another, and socket 1 clears it
SessionNext ==
  \/ JoinSession(1, 1, TheSession)
  \/ \E ok \in BOOLEAN : JoinGetSession(1, ok)
  \/ \E ok \in BOOLEAN : JoinCreateSession(1, ok)
  \/ JoinGetHistory(1)
  \/ \E r \in Reqs, t \in Transports, m \in Messages \ {""} : SessionRequest(r, t, m)
  \/ ClearSession(1, 1, TheSession)
  \/ \E dels \in 0..2 : ClearDelete(1, dels)
  \/ MessageAwait(Reqs)

SessionSpec == SessionInit /\ [][SessionNext]_vars

\* request q was received before request r, for the same session, and both
\* have computed their query hash
EarlierOfSession(q, r) ==
  /\ q < r
  /\ req[q].sessionId = req[r].sessionId
  /\ queryHash[q] # <<>>
  /\ queryHash[r] # <<>>

\* C31 as stated: of two requests of one session handled one after another,
\* the later has another query hash than the earlier, and it is not served
\* from a cache entry the earlier wrote.
C31_LaterRequestHasNewFingerprint ==
  \A q \in Reqs, r \in Reqs :
    EarlierOfSession(q, r) =>
      /\ queryHash[r] # queryHash[q]
      /\ q \notin priorWriters[r]

\* C31, amended: the same, for a later request whose read of the history
\* returned at least one message.
C31_NewFingerprintWhenHistoryRead ==
  \A q \in Reqs, r \in Reqs :
    (EarlierOfSession(q, r) /\ chatHistory[r] # <<>>) =>
      /\ queryHash[r] # queryHash[q]
      /\ q \notin priorWriters[r]

C31_Witness ==
  \E q \in Reqs, r \in Reqs :
    /\ EarlierOfSession(q, r)
    /\ req[q].message = req[r].message
    /\ chatHistory[q] # <<>>
    /\ chatHistory[r] # <<>>
    /\ writeTime[q] >= 0
    /\ pc[r] = "done"
    /\ delivered[r].status = "ok"
    /\ clearHandler[1].emitted = "session_cleared"

(* ---------------------------------------------------------------------- *)
(* RedisService.addChatMessage and getChatHistory, command by command     *)
(* ---------------------------------------------------------------------- *)
\* calls of addChatMessage that a caller makes; one call of getChatHistory
\* is followed
MaxAdds == 1
\* lengths of the stored history at the start, and the limits passed to
\* getChatHistory (the handlers pass 10 and 20, the history route
\* parseInt(req.query.limit))
HistLens == {0, HistoryTrimStop, HistoryTrimStop + 1}
Limits == {-1, 0, 1, HistoryLimit, HistoryTrimStop + 2}

\* the n-th message stored in the history of the session
StoredMessage(n) == ChatMessage(<<n, "user">>, "user", "q1", <<>>)

\* a history of len messages, newest first as lPush leaves them
StoredHistory(len) == [i \in 1..len |-> StoredMessage(len + 1 - i)]

\* the chatMessage a call of addChatMessage builds: a fresh id
NextMessage(list) == StoredMessage(IF list = <<>> THEN 1 ELSE list[1].id[1] + 1)

HistoryInit ==
  \E len \in HistLens :
    StartWith(OnlyTheSession(StoredHistory(len)), {TheSession})

\* caller r is not inside a call of RedisService; the callers are numbered
\* in the order of their first call
Outside(r) ==
  /\ pc[r] \in {"idle", "added", "read", "failed"}
  /\ \A q \in Reqs : q < r => pc[q] # "idle"

\* the GET /history request of caller r with the given limit
HistoryRequest(limit) ==
  [transport |-> "http", sessionId |-> TheSession, message |-> "",
   socketSessionId |-> "none", limit |-> limit]

HistoryUnchanged ==
  /\ UNCHANGED <<store, cache, sessions, now, queryHash, cachedResult,
                 relevantDocs, response, delivered, ghosts, typingEvents,
                 socketVars>>
  /\ UNCHANGED ingestVars

\* addChatMessage is called and its lPush is executed; a failure is rethrown
LPushDone(r, ok) ==
  /\ Outside(r)
  /\ Count(r, {"lPush", "lPushFail"}) < MaxAdds
  /\ Outcome(ok)
  /\ Log(r, IF ok THEN "lPush" ELSE "lPushFail")
  /\ chat_history' = IF ok
       THEN [chat_history EXCEPT ![TheSession] = LPush(@, NextMessage(@))]
       ELSE chat_history
  /\ pc' = [pc EXCEPT ![r] = IF ok THEN "lTrim" ELSE "failed"]
  /\ UNCHANGED <<req, chatHistory>>
  /\ HistoryUnchanged

\* await this.client.lTrim(key, 0, 99)
LTrimDone(r, ok) ==
  /\ pc[r] = "lTrim"
  /\ Outcome(ok)
  /\ Log(r, IF ok THEN "lTrim" ELSE "lTrimFail")
  /\ chat_history' = IF ok
       THEN [chat_history EXCEPT ![TheSession] = LTrim(@, HistoryTrimStop)]
       ELSE chat_history
  /\ pc' = [pc EXCEPT ![r] = IF ok THEN "expire" ELSE "failed"]
  /\ UNCHANGED <<req, chatHistory>>
  /\ HistoryUnchanged

\* await this.client.expire(key, 24 * 60 * 60); return chatMessage
ExpireDone(r, ok) ==
  /\ pc[r] = "expire"
  /\ Outcome(ok)
  /\ Log(r, IF ok THEN "expire" ELSE "expireFail")
  /\ pc' = [pc EXCEPT ![r] = IF ok THEN "added" ELSE "failed"]
  /\ UNCHANGED <<chat_history, req, chatHistory>>
  /\ HistoryUnchanged

\* const history = await redisService.getChatHistory(sessionId, limit)
ReadHistory(r, limit, ok) ==
  /\ Outside(r)
  /\ \A q \in Reqs : Count(q, {"lRange", "lRangeFail"}) = 0
  /\ Outcome(ok)
  /\ Log(r, IF ok THEN "lRange" ELSE "lRangeFail")
  /\ req' = [req EXCEPT ![r] = HistoryRequest(limit)]
  /\ chatHistory' = [chatHistory EXCEPT ![r] =
       GetChatHistoryResult(chat_history[TheSession], limit, ok)]
  /\ pc' = [pc EXCEPT ![r] = "read"]
  /\ UNCHANGED chat_history
  /\ HistoryUnchanged

HistoryNext ==
  \/ \E r \in Reqs, ok \in BOOLEAN : LPushDone(r, ok)
  \/ \E r \in Reqs, ok \in BOOLEAN : LTrimDone(r, ok)
  \/ \E r \in Reqs, ok \in BOOLEAN : ExpireDone(r, ok)
  \/ \E r \in Reqs, limit \in Limits, ok \in BOOLEAN : ReadHistory(r, limit, ok)

HistorySpec == HistoryInit /\ [][HistoryNext]_vars

\* the k most recent messages of a stored history, oldest first
MostRecent(list, k) == [i \in 1..k |-> list[k + 1 - i]]

\* caller r completes a call of addChatMessage in this step
Completes(r) == pc[r] = "expire" /\ pc'[r] = "added"

\* the lRange of a call of getChatHistory by caller r succeeds in this step
Reads(r) == calls'[r] = Append(calls[r], "lRange")

Untrimmed(r) == pc[r] = "lTrim" \/ Has(r, "lTrimFail")

====
